---- MODULE Spec2Model ----
(***************************************************************************)
(* Model of the Cryptarena indexer service: Redis leader election          *)
(* (services/leaderElection), the leader task start-up of index.ts, the    *)
(* transaction poller (listeners/transactionPoller), the mirror processors *)
(* (the processors) and the arena lifecycle workers (arenaLifecycle).      *)
(*                                                                         *)
(* Time is counted in heartbeat periods (HEARTBEAT_INTERVAL_MS): the lock  *)
(* key lives LockTtlTicks periods unless a heartbeat re-asserts its TTL.   *)
(***************************************************************************)
EXTENDS Integers, Sequences, FiniteSets, TLC

\* ------------------------------------------------------------------ bounds
\* Number of redundant service instances (processes) sharing one store.
NumInstances == 3
\* Number of signatures the chain may confirm for the program in one run.
MaxSigs == 4
\* The page limit of one getSignaturesForAddress call (BATCH_SIZE in the
\* source, scaled down so that a page can overflow within MaxSigs).
BatchSize == 2
\* Number of transactions of the program on the ledger of the mirror model.
MaxLedger == 5
\* Cap of the count of on-chain submissions of one phase.
MaxSubmissions == 2
\* Number of process restarts of the lifecycle model.
MaxRestarts == 1
\* The clock of the end model runs from 0 to MaxClock seconds.
MaxClock == 9
\* The end time in the database is one of 1..MaxEndTime.
MaxEndTime == 2
\* The chain's end time is up to MaxDrift seconds later than the database's.
MaxDrift == 3
\* The chain's clock is up to MaxLag seconds behind the process's.
MaxLag == 3
\* The longest buffer handed to a parser: past the longest layout (Arena, 376).
MaxDataLength == 380
\* The most player entries an arena has when it is started.
MaxEntries == 3

\* ------------------------------------------------------- program constants
LOCK_TTL_SECONDS == 30
HEARTBEAT_INTERVAL_MS == 10000
MAX_RETRIES == 3
\* The on-chain value of winning_asset while no asset has won (null in the mirror).
NoAsset == 255
\* lifecycleConfig.maxRetryAttempts and lifecycleConfig.jobOptions.attempts
maxRetryAttempts == 5
attempts == 5
\* checkAndScheduleEndJobs: "Date.now() - 2 * 1000"
END_SCAN_BUFFER == 2
\* processEndArena: "if (remainingSeconds > 1)"
END_CHECK_SLACK == 1
\* addJob: "(remainingSeconds + 5) * 1000"
RETRY_BUFFER == 5
\* processEndArena: "(remainingSeconds + 2) * 1000"
WAIT_BUFFER == 2
\* jobOptions.backoff.delay, in seconds
BACKOFF_DELAY == 1
\* The Anchor discriminator every parser skips ("let offset = 8").
DISCRIMINATOR_LENGTH == 8
\* The bytes of a public key (the slices of 32 bytes).
PUBLIC_KEY_LENGTH == 32

\* The lock TTL in heartbeat periods.
LockTtlTicks == (LOCK_TTL_SECONDS * 1000) \div HEARTBEAT_INTERVAL_MS

Instances == 1..NumInstances

\* The value of an absent key / a null reference.
None == 0

VARIABLES
    \* --- the shared store (Redis): the leader lock key and its remaining TTL
    lockKey,                \* None, or the instanceId the key holds
    ttl,                    \* heartbeat periods until the key expires (0 = absent)
    \* --- leaderElection module state of each instance
    pc,                     \* "boot" | "run" | "released" | "down" : the process
    isLeader,
    heartbeatInterval,      \* the heartbeat timer is set
    followerCheckInterval,  \* the follower-check timer is set
    fcReply,                \* reply of an in-flight follower SET NX: "none"|"OK"|"nil"
    isShuttingDown,
    hbFired,                \* the heartbeat callback ran in the current period
    \* --- index.ts state of each instance
    startPending,           \* a call of startLeaderTasks() is outstanding
    indexerStarted,
    workersStarted,
    pollInterval,           \* the transaction poller's timer is set
    isRunning,              \* ArenaLifecycleManager.isRunning
    \* --- history of the election
    vacated,                \* how the key became absent, until the next leader is
                            \* installed: "none"|"released"|"expired"
    releaseResult,          \* outcome of releaseLeaderLock() on each instance
    promotions,             \* per instance: the follower promotions, each with its cause
    callbackCalls,          \* per instance: invocations of onBecomeLeaderCallback
    taskStarts,             \* per instance: runs of startLeaderTasks() in this process
    \* --- the chain: confirmed signatures of the program, oldest first;
    \*     a signature is its index, its slot is SlotOf(index)
    chain,                  \* Seq({"ok", "err"}): did the transaction fail on-chain
    \* --- the database
    txRows,                 \* signatures having a row in table transaction
    syncSig,                \* sync_state 'last_processed_signature' (None = no row)
    syncSlot,               \* sync_state 'last_processed_slot' (0 = no row)
    \* --- transaction poller module state of each instance
    isPolling,
    lastSignature,
    toProcess,              \* the unseen signatures of this tick, in processing order
    cursor,                 \* position of the for-loop in toProcess
    maxSlot,
    tickApplied,            \* history: signatures applied by the running tick, in order
    \* --- one arena and one player entry: the chain accounts and the ledger
    ledger,                 \* Seq of instruction types; a signature is its index
    arenaAcct,              \* the Arena account: [status, winningAsset]
    entryAcct,              \* the PlayerEntry account: [exists, assetIndex, isWinner, ownTokensClaimed]
    \* --- the mirror database of that arena and entry
    mirror,
    \* --- the lifecycle of one arena: the arena_processing_state row
    psExists,               \* the row exists
    psStatus,               \* [phase -> startStatus / endStatus]
    \* --- the lifecycle workers of the leader process
    tpc,                    \* [path -> [phase -> position of that path's addJob call]]
    job,                    \* [phase -> state of the queue job start-<id> / end-<id>]
    attemptsMade,           \* [phase -> job.attemptsMade]
    wpc,                    \* [phase -> position of the queue worker's processJob]
    submitted,              \* [phase -> startArena / endArena transactions sent]
    accepted,               \* [phase -> the chain executed the instruction]
    hookFired,              \* processArena saw Waiting -> Active and called onArenaReady
    stale,                  \* the row's updatedAt is older than the stuck threshold
    countdownPassed,        \* the first entry is older than waitingCountdownMs
    restarts,
    retryCount,             \* retry_count of the row
    \* --- the end of one active arena, with the clock (EndWorker), in seconds
    now,                    \* floor(Date.now() / 1000)
    mirrorEnd,              \* arena.endTimestamp and scheduledEndTime in the database
    onChainEnd,             \* arenaInfo.endTimestamp as getArenaInfo returns it
    lag,                    \* seconds the chain's clock is behind the process's
    endStatus,              \* end_status of the arena's processing-state row
    scanPc,                 \* checkAndScheduleEndJobs: "idle", in its first or second loop
    xpc,                    \* per executor: its position in processEndArena
    wake,                   \* per executor: the end of its sleep
    ejob,                   \* the job end-<arenaId> of the queue
    readyAt,                \* the time a delayed job becomes ready
    eattempts,              \* job.attemptsMade
    ended,                  \* the chain executed endArena
    outcome,                \* per executor: how its last execution ended
    notBefore,              \* the last rejection's time + remaining seconds + buffer
    \* --- one account buffer handed to its parser (parsers/accounts)
    dataLength,             \* data.length, in bytes
    accountType,            \* the type identifyAccountType gave the buffer
    parsed,                 \* what the parser did: it threw, or the bytes of its record
    \* --- one run of processStartArena (StartWorker) or processEndArena (EndWorker)
    playerEntries,          \* the rows db.playerEntry.findMany returns, in order
    spos,                   \* the statement the run is at
    entryIndex,             \* the position of the for-loop in playerEntries
    calls,                  \* history: the instructions sent and returned, in order
    \* --- the two paths that call processArena, statement by statement
    ap                      \* per applier: position, decoded account, what it read

leaderVars == <<lockKey, ttl, pc, isLeader, heartbeatInterval, followerCheckInterval,
                fcReply, isShuttingDown, hbFired, startPending, indexerStarted,
                workersStarted, pollInterval, isRunning,
                vacated, releaseResult, promotions, callbackCalls,
                taskStarts>>

indexerVars == <<chain, txRows, syncSig, syncSlot, isPolling, lastSignature,
                 toProcess, cursor, maxSlot, tickApplied>>

mirrorVars == <<ledger, arenaAcct, entryAcct, mirror>>

\* The variables of neither the election nor the poller.
lifeVars == <<psExists, psStatus, tpc, job, attemptsMade, wpc, submitted, accepted,
              hookFired, stale, countdownPassed, restarts, retryCount>>

endVars == <<now, mirrorEnd, onChainEnd, lag, endStatus, scanPc, xpc, wake, ejob,
             readyAt, eattempts, ended, outcome, notBefore>>

decodeVars == <<dataLength, accountType, parsed>>

startSeqVars == <<playerEntries, spos, entryIndex, calls>>

restVars == <<mirrorVars, lifeVars, endVars, decodeVars, startSeqVars, ap>>

nonLeaderVars == <<indexerVars, restVars>>

vars == <<leaderVars, indexerVars, restVars>>

\* ----------------------------------------------------------------- store
\* Redis SET key value EX ttl NX: succeeds only if the key does not exist.
SetNxMutant(key) == TRUE
SetNx(key) == key = None

\* The Lua script of the heartbeat / release: act only if the key is ours.
OwnsKeyMutant(key, i) == TRUE
OwnsKey(key, i) == key = i

\* ------------------------------------------------------------------ Init
\* The poller module before startTransactionPoller(), an empty database and
\* a chain without transactions of the program.
IndexerInit ==
    /\ chain = <<>>
    /\ txRows = {}
    /\ syncSig = None
    /\ syncSlot = 0
    /\ isPolling = [i \in Instances |-> FALSE]
    /\ lastSignature = [i \in Instances |-> None]
    /\ toProcess = [i \in Instances |-> <<>>]
    /\ cursor = [i \in Instances |-> 1]
    /\ maxSlot = [i \in Instances |-> 0]
    /\ tickApplied = [i \in Instances |-> <<>>]

\* A waiting arena nobody entered, and an empty mirror database.
MirrorInit ==
    /\ ledger = <<>>
    /\ arenaAcct = [status |-> "Waiting", winningAsset |-> NoAsset]
    /\ entryAcct = [exists |-> FALSE, assetIndex |-> 0, isWinner |-> FALSE,
                    ownTokensClaimed |-> FALSE]
    /\ mirror = [txs |-> {}, signed |-> {},
                 arenaStatus |-> "none", winningAsset |-> NoAsset,
                 entryExists |-> FALSE, entryAsset |-> 0, entryIsWinner |-> FALSE,
                 entryClaimed |-> FALSE,
                 totalArenasPlayed |-> 0, totalWins |-> 0, totalLosses |-> 0,
                 enter_arena |-> 0, arena_win |-> 0, arena_loss |-> 0,
                 arena_created |-> 0, arena_started |-> 0, arena_ended |-> 0]

Phases == {"start", "end"}
Paths == {"scanner", "hook", "recovery"}

\* No processing-state row, idle workers, empty queues.
LifeInit ==
    /\ psExists = FALSE
    /\ psStatus = [p \in Phases |-> "pending"]
    /\ tpc = [t \in Paths |-> [p \in Phases |-> "idle"]]
    /\ job = [p \in Phases |-> "none"]
    /\ attemptsMade = [p \in Phases |-> 0]
    /\ wpc = [p \in Phases |-> "idle"]
    /\ submitted = [p \in Phases |-> 0]
    /\ accepted = [p \in Phases |-> FALSE]
    /\ hookFired = FALSE
    /\ stale = FALSE
    /\ countdownPassed = FALSE
    /\ restarts = 0
    /\ retryCount = 0

\* The two who run processEndArena: addJob inline, and the queue worker.
Executors == {"inline", "worker"}

\* An active arena whose start completed (end_status 'scheduled'), nothing
\* under way; the database has the end time the chain had at the start.
EndIdle ==
    /\ now = 0
    /\ endStatus = "scheduled"
    /\ scanPc = "idle"
    /\ xpc = [x \in Executors |-> "idle"]
    /\ wake = [x \in Executors |-> 0]
    /\ ejob = "none"
    /\ readyAt = 0
    /\ eattempts = 0
    /\ ended = FALSE
    /\ outcome = [x \in Executors |-> "none"]
    /\ notBefore = 0

\* The end model at rest: the chain agrees with the database, no clock lag.
EndRest == EndIdle /\ mirrorEnd = 1 /\ onChainEnd = 1 /\ lag = 0

\* The parser was not called yet.
NotParsed == [called |-> FALSE, threw |-> FALSE, bytes |-> 0]

\* No buffer was handed to a parser.
DecodeRest ==
    /\ dataLength = 0
    /\ accountType = "GlobalState"
    /\ parsed = NotParsed

\* No start transition is under way.
StartSeqRest ==
    /\ playerEntries = <<>>
    /\ spos = "idle"
    /\ entryIndex = 0
    /\ calls = <<>>

\* The appliers of processArena: the poller's account refresh and the push
\* stream's callback.
Appliers == {"poller", "stream"}

\* No call of processArena is under way.
ApRest ==
    ap = [x \in Appliers |->
             [pc |-> "idle", status |-> "Waiting", winningAsset |-> NoAsset,
              existing |-> "none", existingAction |-> FALSE]]

RestInit == MirrorInit /\ LifeInit /\ EndRest /\ DecodeRest /\ StartSeqRest /\ ApRest

\* No key was vacated, nobody released, nobody was promoted; the instances
\* whose leader tasks are up have run startLeaderTasks() once.
HistInit ==
    /\ vacated = "none"
    /\ releaseResult = [i \in Instances |-> "none"]
    /\ promotions = [i \in Instances |-> <<>>]
    /\ callbackCalls = [i \in Instances |-> 0]
    /\ taskStarts = [i \in Instances |-> IF indexerStarted[i] THEN 1 ELSE 0]

InitLeader ==
    /\ IndexerInit
    /\ RestInit
    /\ lockKey = None
    /\ ttl = 0
    /\ pc = [i \in Instances |-> "boot"]
    /\ isLeader = [i \in Instances |-> FALSE]
    /\ heartbeatInterval = [i \in Instances |-> FALSE]
    /\ followerCheckInterval = [i \in Instances |-> FALSE]
    /\ fcReply = [i \in Instances |-> "none"]
    /\ isShuttingDown = [i \in Instances |-> FALSE]
    /\ hbFired = [i \in Instances |-> FALSE]
    /\ startPending = [i \in Instances |-> FALSE]
    /\ indexerStarted = [i \in Instances |-> FALSE]
    /\ workersStarted = [i \in Instances |-> FALSE]
    /\ pollInterval = [i \in Instances |-> FALSE]
    /\ isRunning = [i \in Instances |-> FALSE]
    /\ HistInit

\* The instances are identical; they are numbered in the order in which their
\* main() reaches tryAcquireLeaderLock().
NextToBoot(i) == pc[i] = "boot" /\ \A j \in Instances : j < i => pc[j] # "boot"

taskVars == <<indexerStarted, workersStarted, pollInterval, isRunning>>

histVars == <<vacated, releaseResult, promotions, callbackCalls, taskStarts>>

\* ------------------------------------------------- tryAcquireLeaderLock()
\* main(): SET NX returned 'OK': leader, heartbeat started, then main calls
\* startLeaderTasks().
TryAcquireOk(i) ==
    /\ NextToBoot(i)
    /\ SetNx(lockKey)
    /\ lockKey' = i
    /\ ttl' = LockTtlTicks
    /\ isLeader' = [isLeader EXCEPT ![i] = TRUE]
    /\ heartbeatInterval' = [heartbeatInterval EXCEPT ![i] = TRUE]
    /\ startPending' = [startPending EXCEPT ![i] = TRUE]
    /\ pc' = [pc EXCEPT ![i] = "run"]
    /\ UNCHANGED <<followerCheckInterval, fcReply, isShuttingDown, hbFired, taskVars>>
    /\ vacated' = "none"
    /\ UNCHANGED <<releaseResult, promotions, callbackCalls, taskStarts>>
    /\ UNCHANGED nonLeaderVars

\* main(): SET NX returned null: follower, the follower check is started.
TryAcquireHeld(i) ==
    /\ NextToBoot(i)
    /\ ~SetNx(lockKey)
    /\ isLeader' = [isLeader EXCEPT ![i] = FALSE]
    /\ followerCheckInterval' = [followerCheckInterval EXCEPT ![i] = TRUE]
    /\ pc' = [pc EXCEPT ![i] = "run"]
    /\ UNCHANGED <<lockKey, ttl, heartbeatInterval, fcReply, isShuttingDown, hbFired,
                   startPending, taskVars>>
    /\ UNCHANGED histVars
    /\ UNCHANGED nonLeaderVars

\* The catch of tryAcquireLeaderLock: "isLeader = false; return false".
IsLeaderOnErrorMutant == TRUE
IsLeaderOnError == FALSE

\* main(): the connect or the SET threw: follower, and no timer is started.
TryAcquireError(i) ==
    /\ NextToBoot(i)
    /\ isLeader' = [isLeader EXCEPT ![i] = IsLeaderOnError]
    /\ pc' = [pc EXCEPT ![i] = "run"]
    /\ UNCHANGED <<lockKey, ttl, heartbeatInterval, followerCheckInterval, fcReply,
                   isShuttingDown, hbFired, startPending, taskVars>>
    /\ UNCHANGED histVars
    /\ UNCHANGED nonLeaderVars

\* ------------------------------------------------------ startLeaderTasks()
StartLeaderTasks(i) ==
    /\ pc[i] \in {"run", "released"}
    /\ startPending[i]
    /\ startPending' = [startPending EXCEPT ![i] = FALSE]
    /\ pollInterval' = [pollInterval EXCEPT ![i] = TRUE]
    /\ indexerStarted' = [indexerStarted EXCEPT ![i] = TRUE]
    /\ isRunning' = [isRunning EXCEPT ![i] = TRUE]
    /\ workersStarted' = [workersStarted EXCEPT ![i] = TRUE]
    /\ UNCHANGED <<lockKey, ttl, pc, isLeader, heartbeatInterval, followerCheckInterval,
                   fcReply, isShuttingDown, hbFired>>
    /\ taskStarts' = [taskStarts EXCEPT ![i] = @ + 1]
    /\ UNCHANGED <<vacated, releaseResult, promotions, callbackCalls>>
    /\ UNCHANGED nonLeaderVars

\* --------------------------------------------------------- startHeartbeat()
\* The branch "result === 0" of the timer callback: isLeader = false and
\* stopHeartbeat(); startFollowerCheck() is not called there.
FollowerCheckOnDemotionMutant == TRUE
FollowerCheckOnDemotion == FALSE

\* The timer callback: compare-then-extend; a mismatch demotes the instance.
Heartbeat(i) ==
    /\ pc[i] \in {"run", "released"}
    /\ heartbeatInterval[i]
    /\ ~hbFired[i]
    /\ ~isShuttingDown[i]
    /\ hbFired' = [hbFired EXCEPT ![i] = TRUE]
    /\ IF OwnsKey(lockKey, i)
         THEN /\ ttl' = LockTtlTicks
              /\ UNCHANGED <<isLeader, heartbeatInterval, followerCheckInterval>>
         ELSE /\ isLeader' = [isLeader EXCEPT ![i] = FALSE]
              /\ heartbeatInterval' = [heartbeatInterval EXCEPT ![i] = FALSE]
              /\ followerCheckInterval' =
                    [followerCheckInterval EXCEPT ![i] = @ \/ FollowerCheckOnDemotion]
              /\ UNCHANGED ttl
    /\ UNCHANGED <<lockKey, pc, fcReply, isShuttingDown, startPending, taskVars>>
    /\ UNCHANGED histVars
    /\ UNCHANGED nonLeaderVars

\* The timer callback when the eval throws: logged and swallowed.
HeartbeatError(i) ==
    /\ pc[i] \in {"run", "released"}
    /\ heartbeatInterval[i]
    /\ ~hbFired[i]
    /\ ~isShuttingDown[i]
    /\ hbFired' = [hbFired EXCEPT ![i] = TRUE]
    /\ UNCHANGED <<lockKey, ttl, pc, isLeader, heartbeatInterval, followerCheckInterval,
                   fcReply, isShuttingDown, startPending, taskVars>>
    /\ UNCHANGED histVars
    /\ UNCHANGED nonLeaderVars

\* ------------------------------------------------------ startFollowerCheck()
\* The timer callback up to the store's answer to SET NX.
FollowerCheckSet(i) ==
    /\ pc[i] \in {"run", "released"}
    /\ followerCheckInterval[i]
    /\ fcReply[i] = "none"
    /\ ~isShuttingDown[i] /\ ~isLeader[i]
    /\ IF SetNx(lockKey)
         THEN /\ lockKey' = i
              /\ ttl' = LockTtlTicks
              /\ fcReply' = [fcReply EXCEPT ![i] = "OK"]
         ELSE /\ fcReply' = [fcReply EXCEPT ![i] = "nil"]
              /\ UNCHANGED <<lockKey, ttl>>
    /\ UNCHANGED <<pc, isLeader, heartbeatInterval, followerCheckInterval, isShuttingDown,
                   hbFired, startPending, taskVars>>
    /\ UNCHANGED histVars
    /\ UNCHANGED nonLeaderVars

\* main() registers the promotion callback (onBecomeLeader) before it calls
\* tryAcquireLeaderLock(), so it is set whenever a follower check runs.
CallbackRegisteredMutant == FALSE
CallbackRegistered == TRUE

\* The rest of the callback, once the answer has arrived: on 'OK' the follower
\* is promoted and the promotion callback (startLeaderTasks) is called.
FollowerCheckResult(i) ==
    /\ pc[i] \in {"run", "released"}
    /\ fcReply[i] # "none"
    /\ fcReply' = [fcReply EXCEPT ![i] = "none"]
    /\ IF fcReply[i] = "OK"
         THEN /\ isLeader' = [isLeader EXCEPT ![i] = TRUE]
              /\ followerCheckInterval' = [followerCheckInterval EXCEPT ![i] = FALSE]
              /\ heartbeatInterval' = [heartbeatInterval EXCEPT ![i] = TRUE]
              /\ promotions' = [promotions EXCEPT ![i] = Append(@, vacated)]
              /\ vacated' = "none"
              /\ IF CallbackRegistered
                   THEN /\ startPending' = [startPending EXCEPT ![i] = TRUE]
                        /\ callbackCalls' = [callbackCalls EXCEPT ![i] = @ + 1]
                   ELSE UNCHANGED <<startPending, callbackCalls>>
         ELSE UNCHANGED <<isLeader, followerCheckInterval, heartbeatInterval, startPending,
                          promotions, callbackCalls, vacated>>
    /\ UNCHANGED <<lockKey, ttl, pc, isShuttingDown, hbFired, taskVars, releaseResult, taskStarts>>
    /\ UNCHANGED nonLeaderVars

\* ---------------------------------------------------------------- the TTL
\* One heartbeat period passes: every set heartbeat timer has fired in it, and
\* no reply of the store is in flight across a period (a reply takes far less
\* than HEARTBEAT_INTERVAL_MS).
Tick ==
    /\ \A i \in Instances :
         (pc[i] \in {"run", "released"} /\ heartbeatInterval[i] /\ ~isShuttingDown[i])
            => hbFired[i]
    /\ \A i \in Instances : fcReply[i] = "none"
    /\ hbFired' = [i \in Instances |-> FALSE]
    /\ IF ttl > 1
         THEN /\ ttl' = ttl - 1
              /\ UNCHANGED <<lockKey, vacated>>
         ELSE /\ ttl' = 0
              /\ lockKey' = None
              /\ vacated' = IF lockKey # None THEN "expired" ELSE vacated
    /\ UNCHANGED <<pc, isLeader, heartbeatInterval, followerCheckInterval, fcReply,
                   isShuttingDown, startPending, taskVars, releaseResult, promotions,
                   callbackCalls, taskStarts>>
    /\ UNCHANGED nonLeaderVars

\* ------------------------------------------------ cleanupLeaderElection()
\* shutdown(): releaseLeaderLock() (compare-then-delete) and stopFollowerCheck().
CleanupLeaderElection(i) ==
    /\ pc[i] = "run"
    /\ pc' = [pc EXCEPT ![i] = "released"]
    /\ isShuttingDown' = [isShuttingDown EXCEPT ![i] = TRUE]
    /\ heartbeatInterval' = [heartbeatInterval EXCEPT ![i] = FALSE]
    /\ followerCheckInterval' = [followerCheckInterval EXCEPT ![i] = FALSE]
    /\ IF isLeader[i]
         THEN /\ isLeader' = [isLeader EXCEPT ![i] = FALSE]
              /\ IF OwnsKey(lockKey, i)
                   THEN /\ lockKey' = None /\ ttl' = 0
                        /\ vacated' = IF lockKey # None THEN "released" ELSE vacated
                        /\ releaseResult' = [releaseResult EXCEPT ![i] = "deleted"]
                   ELSE /\ UNCHANGED <<lockKey, ttl, vacated>>
                        /\ releaseResult' = [releaseResult EXCEPT ![i] = "kept"]
         ELSE /\ UNCHANGED <<isLeader, lockKey, ttl, vacated>>
              /\ releaseResult' = [releaseResult EXCEPT ![i] = "skipped"]
    /\ UNCHANGED <<fcReply, hbFired, startPending, taskVars, promotions, callbackCalls, taskStarts>>
    /\ UNCHANGED nonLeaderVars

\* releaseLeaderLock() when the eval throws: the catch block logs; the key is
\* not deleted and isLeader stays true.
CleanupLeaderElectionError(i) ==
    /\ pc[i] = "run"
    /\ isLeader[i]
    /\ pc' = [pc EXCEPT ![i] = "released"]
    /\ isShuttingDown' = [isShuttingDown EXCEPT ![i] = TRUE]
    /\ heartbeatInterval' = [heartbeatInterval EXCEPT ![i] = FALSE]
    /\ followerCheckInterval' = [followerCheckInterval EXCEPT ![i] = FALSE]
    /\ releaseResult' = [releaseResult EXCEPT ![i] = "error"]
    /\ UNCHANGED <<lockKey, ttl, isLeader, fcReply, hbFired, startPending, taskVars,
                   vacated, promotions, callbackCalls, taskStarts>>
    /\ UNCHANGED nonLeaderVars

\* shutdown(): stopLeaderTasks() after cleanupLeaderElection(); it returns at
\* once unless isInstanceLeader(). shutdown() has then completed.
StopLeaderTasks(i) ==
    /\ pc[i] = "released"
    /\ fcReply[i] = "none"
    /\ pc' = [pc EXCEPT ![i] = "stopped"]
    /\ IF isLeader[i]
         THEN /\ isRunning' = [isRunning EXCEPT ![i] = IF workersStarted[i] THEN FALSE ELSE @]
              /\ workersStarted' = [workersStarted EXCEPT ![i] = FALSE]
              /\ pollInterval' = [pollInterval EXCEPT ![i] = IF indexerStarted[i] THEN FALSE ELSE @]
              /\ indexerStarted' = [indexerStarted EXCEPT ![i] = FALSE]
         ELSE UNCHANGED taskVars
    /\ UNCHANGED <<lockKey, ttl, isLeader, heartbeatInterval, followerCheckInterval,
                   fcReply, isShuttingDown, hbFired, startPending>>
    /\ UNCHANGED histVars
    /\ UNCHANGED nonLeaderVars

\* shutdown() returned and the signal handler calls process.exit(): every
\* timer and all module state of the process are gone.
ProcessExit(i) ==
    /\ pc[i] = "stopped"
    /\ pc' = [pc EXCEPT ![i] = "down"]
    /\ isLeader' = [isLeader EXCEPT ![i] = FALSE]
    /\ heartbeatInterval' = [heartbeatInterval EXCEPT ![i] = FALSE]
    /\ followerCheckInterval' = [followerCheckInterval EXCEPT ![i] = FALSE]
    /\ fcReply' = [fcReply EXCEPT ![i] = "none"]
    /\ startPending' = [startPending EXCEPT ![i] = FALSE]
    /\ pollInterval' = [pollInterval EXCEPT ![i] = FALSE]
    /\ isRunning' = [isRunning EXCEPT ![i] = FALSE]
    /\ indexerStarted' = [indexerStarted EXCEPT ![i] = FALSE]
    /\ workersStarted' = [workersStarted EXCEPT ![i] = FALSE]
    /\ isShuttingDown' = [isShuttingDown EXCEPT ![i] = FALSE]
    /\ hbFired' = [hbFired EXCEPT ![i] = FALSE]
    /\ releaseResult' = [releaseResult EXCEPT ![i] = "none"]
    /\ promotions' = [promotions EXCEPT ![i] = <<>>]
    /\ callbackCalls' = [callbackCalls EXCEPT ![i] = 0]
    /\ taskStarts' = [taskStarts EXCEPT ![i] = 0]
    /\ UNCHANGED <<lockKey, ttl, vacated>>
    /\ UNCHANGED nonLeaderVars

\* The process dies without running shutdown(): every timer and all module
\* state of the process are gone, the store keeps the key until its TTL.
Crash(i) ==
    /\ pc[i] = "run"
    /\ pc' = [pc EXCEPT ![i] = "crashed"]
    /\ isLeader' = [isLeader EXCEPT ![i] = FALSE]
    /\ heartbeatInterval' = [heartbeatInterval EXCEPT ![i] = FALSE]
    /\ followerCheckInterval' = [followerCheckInterval EXCEPT ![i] = FALSE]
    /\ fcReply' = [fcReply EXCEPT ![i] = "none"]
    /\ startPending' = [startPending EXCEPT ![i] = FALSE]
    /\ pollInterval' = [pollInterval EXCEPT ![i] = FALSE]
    /\ isRunning' = [isRunning EXCEPT ![i] = FALSE]
    /\ indexerStarted' = [indexerStarted EXCEPT ![i] = FALSE]
    /\ workersStarted' = [workersStarted EXCEPT ![i] = FALSE]
    /\ isShuttingDown' = [isShuttingDown EXCEPT ![i] = FALSE]
    /\ hbFired' = [hbFired EXCEPT ![i] = FALSE]
    /\ releaseResult' = [releaseResult EXCEPT ![i] = "none"]
    /\ promotions' = [promotions EXCEPT ![i] = <<>>]
    /\ callbackCalls' = [callbackCalls EXCEPT ![i] = 0]
    /\ taskStarts' = [taskStarts EXCEPT ![i] = 0]
    /\ UNCHANGED <<lockKey, ttl, vacated>>
    /\ UNCHANGED nonLeaderVars

NextLeader ==
    \/ \E i \in Instances : TryAcquireOk(i)
    \/ \E i \in Instances : TryAcquireHeld(i)
    \/ \E i \in Instances : TryAcquireError(i)
    \/ \E i \in Instances : StartLeaderTasks(i)
    \/ \E i \in Instances : Heartbeat(i)
    \/ \E i \in Instances : HeartbeatError(i)
    \/ \E i \in Instances : FollowerCheckSet(i)
    \/ \E i \in Instances : FollowerCheckResult(i)
    \/ Tick
    \/ \E i \in Instances : CleanupLeaderElection(i)
    \/ \E i \in Instances : CleanupLeaderElectionError(i)
    \/ \E i \in Instances : StopLeaderTasks(i)
    \/ \E i \in Instances : ProcessExit(i)

SpecLeader == InitLeader /\ [][NextLeader]_vars

\* ===================================================== leader election claims

\* C1: a SET NX succeeds only while the lock key is absent: the key takes a
\* new identity only from the absent state, and the identity it then holds is
\* that of the one instance whose SET returned 'OK'.
C1_AcquireOnlyWhenAbsent ==
    [][(lockKey' # lockKey /\ lockKey' # None)
          => /\ lockKey = None
             /\ \/ isLeader'[lockKey'] /\ ~isLeader[lockKey']
                \/ fcReply'[lockKey'] = "OK"]_vars

\* C1 witness: one instance holds the key and leads while the other's
\* acquisition attempt was refused.
C1_Witness ==
    \E i, j \in Instances :
        /\ i # j
        /\ lockKey = i /\ isLeader[i]
        /\ followerCheckInterval[j] /\ fcReply[j] = "nil" /\ ~isLeader[j]

\* C2: at any moment at most one instance has isLeader = true.
C2_AtMostOneLeader ==
    Cardinality({i \in Instances : isLeader[i]}) <= 1

\* C3: on a running instance (not one that is shutting down) the transaction
\* poller and the lifecycle manager are active only while it is leader.
C3_TasksOnlyOnLeader ==
    \A i \in Instances :
        (pc[i] = "run" /\ (pollInterval[i] \/ isRunning[i])) => isLeader[i]

\* ======================================================= transaction poller
\* The slot of a signature: slots grow with the chain's order.
SlotOf(s) == s

Min(a, b) == IF a < b THEN a ELSE b
Max(a, b) == IF a > b THEN a ELSE b

\* fetchSignatures(): getSignaturesForAddress with limit BATCH_SIZE returns
\* the newest signatures of the program, newest first.
FetchSignatures(ch) ==
    [k \in 1..Min(BatchSize, Len(ch)) |-> Len(ch) - k + 1]

\* The scan of pollNewTransactions: the prefix of the page before the
\* in-memory lastSignature (the whole page if it is not on the page).
NewSignatures(signatures, last) ==
    LET hits == {k \in DOMAIN signatures : last # None /\ signatures[k] = last}
        n    == IF hits = {} THEN Len(signatures)
                ELSE (CHOOSE k \in hits : \A h \in hits : k <= h) - 1
    IN  SubSeq(signatures, 1, n)

\* Array.prototype.reverse()
NoReverse(s) == s
Reverse(s) == [k \in 1..Len(s) |-> s[Len(s) - k + 1]]

\* The instance's poll timer is set and its process is alive.
Polling(i) == pollInterval[i] /\ pc[i] = "run"

\* The loop of instance i stands at a signature.
AtSig(i) == isPolling[i] /\ cursor[i] <= Len(toProcess[i])
CurSig(i) == toProcess[i][cursor[i]]

\* The in-memory state of a tick that is over.
EndTick(i) ==
    /\ isPolling' = [isPolling EXCEPT ![i] = FALSE]
    /\ toProcess' = [toProcess EXCEPT ![i] = <<>>]
    /\ cursor' = [cursor EXCEPT ![i] = 1]
    /\ maxSlot' = [maxSlot EXCEPT ![i] = 0]
    /\ tickApplied' = [tickApplied EXCEPT ![i] = <<>>]

\* The loop moves to the next signature.
Advance(i) ==
    cursor' = [cursor EXCEPT ![i] = cursor[i] + 1]

\* fetchTransaction(signature): getParsedTransaction is tried MAX_RETRIES + 1
\* times; the transaction of the first attempt that does not throw is
\* returned, null if all throw. failures = the attempts that throw in a row.
Failures == 0..(MAX_RETRIES + 1)
FetchTransaction(failures) == IF failures <= MAX_RETRIES THEN "tx" ELSE "null"

\* The chain confirms one more transaction of the program.
NewTransaction ==
    /\ Len(chain) < MaxSigs
    /\ \E e \in {"ok", "err"} : chain' = Append(chain, e)
    /\ UNCHANGED <<leaderVars, restVars, txRows, syncSig, syncSlot, isPolling, lastSignature,
                   toProcess, cursor, maxSlot, tickApplied>>

\* pollNewTransactions(), up to the for-loop: fetch the page, keep the unseen
\* prefix, reverse it. Nothing new: the tick returns at once.
PollNewTransactions(i) ==
    /\ Polling(i)
    /\ ~isPolling[i]
    /\ LET newSignatures == NewSignatures(FetchSignatures(chain), lastSignature[i])
       IN  IF newSignatures = <<>>
             THEN UNCHANGED <<isPolling, toProcess>>
             ELSE /\ isPolling' = [isPolling EXCEPT ![i] = TRUE]
                  /\ toProcess' = [toProcess EXCEPT ![i] = Reverse(newSignatures)]
    /\ UNCHANGED <<leaderVars, restVars, chain, txRows, syncSig, syncSlot, lastSignature,
                   cursor, maxSlot, tickApplied>>

\* for-loop: "if (sigInfo.err) continue"
SkipFailed(i) ==
    /\ Polling(i) /\ AtSig(i)
    /\ chain[CurSig(i)] = "err"
    /\ Advance(i)
    /\ UNCHANGED <<leaderVars, restVars, chain, txRows, syncSig, syncSlot, isPolling,
                   lastSignature, toProcess, maxSlot, tickApplied>>

\* for-loop: "if (existing) continue"
SkipExisting(i) ==
    /\ Polling(i) /\ AtSig(i)
    /\ chain[CurSig(i)] = "ok"
    /\ CurSig(i) \in txRows
    /\ Advance(i)
    /\ UNCHANGED <<leaderVars, restVars, chain, txRows, syncSig, syncSlot, isPolling,
                   lastSignature, toProcess, maxSlot, tickApplied>>

\* for-loop: fetchTransaction returned the transaction and processTransaction
\* applied it (processInstruction upserts the transaction row).
FetchAndProcess(i) ==
    /\ Polling(i) /\ AtSig(i)
    /\ chain[CurSig(i)] = "ok"
    /\ CurSig(i) \notin txRows
    /\ \E failures \in Failures : FetchTransaction(failures) = "tx"
    /\ txRows' = txRows \cup {CurSig(i)}
    /\ maxSlot' = [maxSlot EXCEPT ![i] = Max(maxSlot[i], SlotOf(CurSig(i)))]
    /\ tickApplied' = [tickApplied EXCEPT ![i] = Append(tickApplied[i], CurSig(i))]
    /\ Advance(i)
    /\ UNCHANGED <<leaderVars, restVars, chain, syncSig, syncSlot, isPolling, lastSignature,
                   toProcess>>

\* for-loop: fetchTransaction returned the transaction but processInstruction
\* threw; processTransaction catches and logs, the loop goes on.
ProcessInstructionError(i) ==
    /\ Polling(i) /\ AtSig(i)
    /\ chain[CurSig(i)] = "ok"
    /\ CurSig(i) \notin txRows
    /\ \E failures \in Failures : FetchTransaction(failures) = "tx"
    /\ maxSlot' = [maxSlot EXCEPT ![i] = Max(maxSlot[i], SlotOf(CurSig(i)))]
    /\ Advance(i)
    /\ UNCHANGED <<leaderVars, restVars, chain, txRows, syncSig, syncSlot, isPolling,
                   lastSignature, toProcess, tickApplied>>

\* for-loop: every attempt of fetchTransaction threw: it returns null and the
\* loop goes on to the next signature.
FetchTransactionNull(i) ==
    /\ Polling(i) /\ AtSig(i)
    /\ chain[CurSig(i)] = "ok"
    /\ CurSig(i) \notin txRows
    /\ \E failures \in Failures : FetchTransaction(failures) = "null"
    /\ Advance(i)
    /\ UNCHANGED <<leaderVars, restVars, chain, txRows, syncSig, syncSlot, isPolling,
                   lastSignature, toProcess, maxSlot, tickApplied>>

\* After the loop: lastSignature becomes the newest signature of the tick and
\* is saved; the slot is saved if a transaction was processed.
SaveCheckpoint(i) ==
    /\ Polling(i)
    /\ isPolling[i] /\ cursor[i] > Len(toProcess[i])
    /\ LET newest == toProcess[i][Len(toProcess[i])]
       IN  /\ lastSignature' = [lastSignature EXCEPT ![i] = newest]
           /\ syncSig' = newest
    /\ syncSlot' = IF maxSlot[i] > 0 THEN maxSlot[i] ELSE syncSlot
    /\ EndTick(i)
    /\ UNCHANGED <<leaderVars, restVars, chain, txRows>>

\* After the loop, saveLastProcessedSignature threw: lastSignature was
\* assigned already, nothing is saved; the catch logs, the finally clears
\* isPolling.
SaveSignatureError(i) ==
    /\ Polling(i)
    /\ isPolling[i] /\ cursor[i] > Len(toProcess[i])
    /\ lastSignature' = [lastSignature EXCEPT ![i] = toProcess[i][Len(toProcess[i])]]
    /\ EndTick(i)
    /\ UNCHANGED <<leaderVars, restVars, chain, txRows, syncSig, syncSlot>>

\* After the loop, the signature was saved and saveLastProcessedSlot threw.
SaveSlotError(i) ==
    /\ Polling(i)
    /\ isPolling[i] /\ cursor[i] > Len(toProcess[i])
    /\ maxSlot[i] > 0
    /\ LET newest == toProcess[i][Len(toProcess[i])]
       IN  /\ lastSignature' = [lastSignature EXCEPT ![i] = newest]
           /\ syncSig' = newest
    /\ EndTick(i)
    /\ UNCHANGED <<leaderVars, restVars, chain, txRows, syncSlot>>

\* A database call of the loop threw: the catch logs, the finally clears
\* isPolling; the checkpoint is not written. (A throw of fetchSignatures
\* ends the tick the same way before anything was changed.)
PollError(i) ==
    /\ Polling(i)
    /\ isPolling[i]
    /\ EndTick(i)
    /\ UNCHANGED <<leaderVars, restVars, chain, txRows, syncSig, syncSlot, lastSignature>>

\* The process is restarted and startTransactionPoller() runs again:
\* lastSignature is loaded from the database.
StartTransactionPoller(i) ==
    /\ Polling(i)
    /\ lastSignature' = [lastSignature EXCEPT ![i] = syncSig]
    /\ EndTick(i)
    /\ UNCHANGED <<leaderVars, restVars, chain, txRows, syncSig, syncSlot>>

NextIndexer ==
    \/ NewTransaction
    \/ \E i \in Instances : PollNewTransactions(i)
    \/ \E i \in Instances : SkipFailed(i)
    \/ \E i \in Instances : SkipExisting(i)
    \/ \E i \in Instances : FetchAndProcess(i)
    \/ \E i \in Instances : ProcessInstructionError(i)
    \/ \E i \in Instances : FetchTransactionNull(i)
    \/ \E i \in Instances : SaveCheckpoint(i)
    \/ \E i \in Instances : PollError(i)
    \/ \E i \in Instances : StartTransactionPoller(i)

\* The election state in which instance 1 is the leader and runs the leader
\* tasks, the other instances being followers.
OneLeader ==
    /\ lockKey = 1
    /\ ttl = LockTtlTicks
    /\ pc = [i \in Instances |-> "run"]
    /\ isLeader = [i \in Instances |-> i = 1]
    /\ heartbeatInterval = [i \in Instances |-> i = 1]
    /\ followerCheckInterval = [i \in Instances |-> i # 1]
    /\ fcReply = [i \in Instances |-> "none"]
    /\ isShuttingDown = [i \in Instances |-> FALSE]
    /\ hbFired = [i \in Instances |-> FALSE]
    /\ startPending = [i \in Instances |-> FALSE]
    /\ indexerStarted = [i \in Instances |-> i = 1]
    /\ workersStarted = [i \in Instances |-> i = 1]
    /\ pollInterval = [i \in Instances |-> i = 1]
    /\ isRunning = [i \in Instances |-> i = 1]
    /\ HistInit

InitIndexer == OneLeader /\ IndexerInit /\ RestInit

SpecIndexer == InitIndexer /\ [][NextIndexer]_vars

IndexerFairness ==
    \A i \in Instances :
        /\ SF_vars(PollNewTransactions(i))
        /\ SF_vars(SkipFailed(i))
        /\ SF_vars(SkipExisting(i))
        /\ SF_vars(FetchAndProcess(i))
        /\ SF_vars(SaveCheckpoint(i))

SpecIndexerFair == SpecIndexer /\ IndexerFairness

\* The poller with the failures of the two saves after the loop as well.
NextPollFailure ==
    \/ NextIndexer
    \/ \E i \in Instances : SaveSignatureError(i)
    \/ \E i \in Instances : SaveSlotError(i)

SpecPollFailure == InitIndexer /\ [][NextPollFailure]_vars

\* The election state after a leader was demoted by its heartbeat while its
\* tasks stay up (C3) and the other instance took the lock: both poll.
DemotedAndLeader ==
    /\ lockKey = 2
    /\ ttl = LockTtlTicks
    /\ pc = [i \in Instances |-> "run"]
    /\ isLeader = [i \in Instances |-> i = 2]
    /\ heartbeatInterval = [i \in Instances |-> i = 2]
    /\ followerCheckInterval = [i \in Instances |-> FALSE]
    /\ fcReply = [i \in Instances |-> "none"]
    /\ isShuttingDown = [i \in Instances |-> FALSE]
    /\ hbFired = [i \in Instances |-> i = 1]
    /\ startPending = [i \in Instances |-> FALSE]
    /\ indexerStarted = [i \in Instances |-> i \in {1, 2}]
    /\ workersStarted = [i \in Instances |-> i \in {1, 2}]
    /\ pollInterval = [i \in Instances |-> i \in {1, 2}]
    /\ isRunning = [i \in Instances |-> i \in {1, 2}]
    /\ vacated = "none"
    /\ releaseResult = [i \in Instances |-> "none"]
    /\ promotions = [i \in Instances |-> IF i = 2 THEN <<"expired">> ELSE <<>>]
    /\ callbackCalls = [i \in Instances |-> IF i = 2 THEN 1 ELSE 0]
    /\ taskStarts = [i \in Instances |-> IF i \in {1, 2} THEN 1 ELSE 0]

InitTwoPollers == DemotedAndLeader /\ IndexerInit /\ RestInit

SpecTwoPollers == InitTwoPollers /\ [][NextIndexer]_vars

\* ------------------------------------------------------ follower promotion
\* The instances whose follower check is running.
Followers ==
    {j \in Instances : pc[j] = "run" /\ followerCheckInterval[j] /\ ~isLeader[j]}

\* The election from the moment all instances run: one leader, the others
\* followers; no instance boots any more.
NextPromotion ==
    \/ \E i \in Instances : StartLeaderTasks(i)
    \/ \E i \in Instances : Heartbeat(i)
    \/ \E i \in Instances : HeartbeatError(i)
    \/ \E i \in Instances : FollowerCheckSet(i)
    \/ \E i \in Instances : FollowerCheckResult(i)
    \/ Tick
    \/ \E i \in Instances : CleanupLeaderElection(i)
    \/ \E i \in Instances : CleanupLeaderElectionError(i)
    \/ \E i \in Instances : StopLeaderTasks(i)
    \/ \E i \in Instances : ProcessExit(i)

\* setInterval keeps firing the follower check, and the store answers.
PromotionFairness ==
    \A i \in Instances :
        /\ WF_vars(FollowerCheckSet(i))
        /\ WF_vars(FollowerCheckResult(i))

\* One instance leads, the others follow it.
InitPromotion == OneLeader /\ IndexerInit /\ RestInit

SpecPromotion == InitPromotion /\ [][NextPromotion]_vars /\ PromotionFairness

\* The election with crashes of instances.
NextCrash ==
    \/ NextPromotion
    \/ \E i \in Instances : Crash(i)

\* The heartbeat periods pass (a reply of the store takes far less than a
\* period, so again and again none is in flight), the timers of the
\* instances fire and the store answers.
CrashFairness ==
    /\ []<>(\A i \in Instances : fcReply[i] = "none")
    /\ SF_vars(Tick)
    /\ \A i \in Instances :
         /\ WF_vars(Heartbeat(i))
         /\ WF_vars(FollowerCheckSet(i))
         /\ WF_vars(FollowerCheckResult(i))

SpecCrash == InitPromotion /\ [][NextCrash]_vars /\ CrashFairness

\* C25: after the leader crashed without releasing, the TTL of its key is
\* never extended and runs down with the heartbeat periods, so the key is
\* gone at most one TTL after the last successful heartbeat; a follower
\* whose check runs then becomes leader (unless all followers stop first).
C25_CrashedLeaderReplaced ==
    /\ [][\A i \in Instances :
             (pc[i] = "crashed" /\ lockKey = i /\ <<lockKey, ttl>>' # <<lockKey, ttl>>)
                => /\ ttl' = ttl - 1
                   /\ lockKey' = IF ttl' = 0 THEN None ELSE i]_vars
    /\ [](ttl <= LockTtlTicks)
    /\ (\E i \in Instances : pc[i] = "crashed" /\ lockKey = i /\ Followers # {})
          ~> (\/ Followers = {}
              \/ \E j \in Instances :
                    /\ isLeader[j] /\ lockKey = j /\ promotions[j] # <<>>
                    /\ promotions[j][Len(promotions[j])] = "expired")

C25_Witness ==
    \E i, j \in Instances :
        /\ pc[i] = "crashed" /\ pc[j] = "run"
        /\ isLeader[j] /\ lockKey = j /\ promotions[j] = <<"expired">>
        /\ \A k \in Instances : releaseResult[k] = "none" /\ pc[k] \in {"run", "crashed"}

\* C11: after the leader released the lock while followers run their check,
\* one of them is promoted (unless they all shut down first); a follower's
\* SET NX succeeds only while nobody holds the key, and a follower is promoted
\* only while the key holds its own identity, so no second follower is
\* promoted while the first one holds the lock.
C11_OneFollowerPromoted ==
    /\ [][\A j \in Instances :
            (fcReply'[j] = "OK" /\ fcReply[j] # "OK") => (lockKey = None /\ lockKey' = j)]_vars
    /\ [][\A j \in Instances :
            Len(promotions'[j]) > Len(promotions[j])
               => (lockKey = j /\ \A k \in Instances \ {j} : fcReply[k] # "OK")]_vars
    /\ (vacated = "released" /\ lockKey = None /\ Followers # {})
          ~> (Followers = {} \/ \E j \in Instances : isLeader[j] /\ promotions[j] # <<>>)

\* C11 witness: after a release one follower was promoted and holds the key
\* while the other follower's attempt was refused.
C11_Witness ==
    \E i, j \in Instances :
        /\ i # j
        /\ promotions[i] = <<"released">> /\ isLeader[i] /\ lockKey = i
        /\ j \in Followers /\ fcReply[j] = "nil"

\* C12: every promotion of a follower invokes the promotion callback exactly
\* once: on each instance the callback has been invoked as many times as the
\* instance has been promoted.
C12_CallbackOncePerPromotion ==
    \A i \in Instances : callbackCalls[i] = Len(promotions[i])

\* C12 witness: one follower was promoted after the previous holder's key
\* expired, another after a release; each had its callback invoked.
C12_Witness ==
    \E i, j \in Instances :
        /\ promotions[i] = <<"expired">> /\ callbackCalls[i] = 1
        /\ promotions[j] = <<"released">> /\ callbackCalls[j] = 1

\* C13: a heartbeat changes the key's TTL only when the key holds the
\* heartbeating instance's identity; it never extends an absent key or a key
\* of another instance.
C13_HeartbeatExtendsOwnKeyOnly ==
    [][\A i \in Instances :
         (hbFired'[i] /\ ~hbFired[i])
            => /\ lockKey' = lockKey
               /\ (ttl' = ttl \/ (lockKey = i /\ ttl' = LockTtlTicks))]_vars

\* C13 witness: a demoted instance's heartbeat ran against the key of
\* another instance and left its TTL as it was.
C13_Witness ==
    \E i, j \in Instances :
        /\ i # j
        /\ lockKey = j /\ ttl > 0 /\ ttl < LockTtlTicks
        /\ pc[i] = "run" /\ hbFired[i] /\ ~heartbeatInterval[i] /\ ~isShuttingDown[i]

\* C14: release() changes the key only by deleting it, and only when the key
\* holds the releasing instance's identity.
C14_ReleaseDeletesOwnKeyOnly ==
    [][\A i \in Instances :
         (isShuttingDown'[i] /\ ~isShuttingDown[i] /\ lockKey' # lockKey)
            => (lockKey = i /\ lockKey' = None)]_vars

\* C14 witness: an instance that still believed to lead released while the
\* key held another instance's identity, and the key was kept.
C14_Witness ==
    \E i, j \in Instances :
        /\ i # j
        /\ pc[i] = "released" /\ releaseResult[i] = "kept"
        /\ lockKey = j /\ isLeader[j]

\* C24: when the store is unavailable as tryAcquire runs, the instance is a
\* follower afterwards: an instance that comes out of tryAcquire without
\* the key holding its identity is not leader and starts no leader task.
C24_NoLeadershipWithoutKey ==
    [][\A i \in Instances :
          (pc[i] = "boot" /\ pc'[i] = "run" /\ lockKey' # i)
             => (~isLeader'[i] /\ ~heartbeatInterval'[i] /\ ~startPending'[i])]_vars

C24_Witness ==
    \E i \in Instances :
        /\ pc[i] = "run" /\ ~isLeader[i] /\ ~followerCheckInterval[i]
        /\ lockKey = None /\ vacated = "none"
        /\ \A j \in Instances : promotions[j] = <<>> /\ pc[j] \in {"boot", "run"}

\* C19: once shutdown() has completed on an instance that was leader, none of
\* its timers is set and the key does not hold its identity.
C19_ShutdownStopsEverything ==
    \A i \in Instances :
        (pc[i] = "stopped" /\ releaseResult[i] \in {"deleted", "kept", "error"})
           => /\ ~pollInterval[i] /\ ~isRunning[i]
              /\ ~heartbeatInterval[i] /\ ~followerCheckInterval[i]
              /\ lockKey # i

\* ------------------------------------------------------------ poller claims

\* C6: every confirmed transaction of the program that did not fail on-chain
\* is eventually applied to the mirror (its transaction row exists).
C6_EventuallyApplied ==
    \A s \in 1..MaxSigs :
        (Len(chain) >= s /\ chain[s] = "ok") ~> (s \in txRows)

\* C7: the persisted checkpoint stands at a signature only if every
\* non-failed signature up to it has been applied.
C7_CheckpointOnlyPastApplied ==
    \A s \in 1..Len(chain) :
        (syncSig # None /\ s <= syncSig /\ chain[s] = "ok") => s \in txRows

\* C8: the persisted checkpoint never regresses: neither the signature nor
\* the slot is replaced by an older one.
C8_CheckpointMonotonic ==
    [][syncSig' >= syncSig /\ syncSlot' >= syncSlot]_vars

\* C23: a tick that ends with an error outside the handling of a signature
\* (it ends without both the signature and the slot being saved) leaves the
\* saved checkpoint as it was, and the next firing of the timer runs a tick.
C23_FailedTickKeepsCheckpoint ==
    [][\A i \in Instances :
          (/\ isPolling[i] /\ ~isPolling'[i]
           /\ ~(/\ cursor[i] > Len(toProcess[i])
                /\ syncSig' = toProcess[i][Len(toProcess[i])]
                /\ maxSlot[i] > 0 => syncSlot' = maxSlot[i]))
             => (syncSig' = syncSig /\ syncSlot' = syncSlot
                   /\ pollInterval'[i] = pollInterval[i])]_vars

\* C9: within one tick the signatures are applied strictly oldest-first.
C9_OldestFirst ==
    \A i \in Instances :
        \A a, b \in DOMAIN tickApplied[i] :
            a < b => tickApplied[i][a] < tickApplied[i][b]

\* C9 witness: a tick has applied two signatures of one page.
C9_Witness ==
    \E i \in Instances : Len(tickApplied[i]) >= 2

\* ========================================================= mirror processors
Assets == {0, 1}

\* updatePlayerWinLossStats(arenaId, winningAsset): the entries of the arena
\* without an arena_win / arena_loss action get one, and the counter.
UpdatePlayerWinLossStats(m, winningAsset) ==
    IF ~m.entryExists \/ m.arena_win + m.arena_loss > 0 THEN m
    ELSE IF m.entryAsset = winningAsset
      THEN [m EXCEPT !.totalWins = @ + 1, !.arena_win = @ + 1]
      ELSE [m EXCEPT !.totalLosses = @ + 1, !.arena_loss = @ + 1]

\* processArena(pubkey, data) with the decoded Arena account a.
ProcessArena(m, a) ==
    IF m.arenaStatus = "none"
      THEN [m EXCEPT !.arenaStatus = a.status, !.winningAsset = a.winningAsset,
                     !.arena_created = @ + 1]
      ELSE LET statusChanged == m.arenaStatus # a.status
               u  == [m EXCEPT !.arenaStatus = a.status, !.winningAsset = a.winningAsset]
               ev == IF ~statusChanged THEN u
                     ELSE IF a.status = "Active" /\ m.arenaStatus = "Waiting"
                       THEN [u EXCEPT !.arena_started = @ + 1]
                     ELSE IF a.status = "Ended"
                       THEN [u EXCEPT !.arena_ended = @ + 1]
                     ELSE u
           IN  IF statusChanged /\ a.status = "Ended" /\ a.winningAsset # NoAsset
                 THEN UpdatePlayerWinLossStats(ev, a.winningAsset)
                 ELSE ev

\* processPlayerEntry(pubkey, data) with the decoded PlayerEntry account e.
ProcessPlayerEntry(m, e) ==
    IF m.arenaStatus = "none" THEN m
    ELSE IF m.entryExists
      THEN LET u == [m EXCEPT !.entryAsset = e.assetIndex, !.entryIsWinner = e.isWinner,
                              !.entryClaimed = e.ownTokensClaimed]
           IN  IF ~m.entryIsWinner /\ e.isWinner
                 THEN [u EXCEPT !.totalWins = @ + 1]
               ELSE IF /\ ~m.entryIsWinner /\ ~e.isWinner
                       /\ ~m.entryClaimed /\ ~e.ownTokensClaimed
                       /\ m.winningAsset # NoAsset /\ m.winningAsset # e.assetIndex
                       /\ m.arena_loss = 0
                 THEN [u EXCEPT !.totalLosses = @ + 1, !.arena_loss = @ + 1]
               ELSE u
      ELSE [m EXCEPT !.entryExists = TRUE, !.entryAsset = e.assetIndex,
                     !.entryIsWinner = e.isWinner, !.entryClaimed = e.ownTokensClaimed,
                     !.enter_arena = @ + 1, !.totalArenasPlayed = @ + 1]

\* extractAccountsFromInstruction(instructionType, accountKeys): the account
\* roles refreshAccountsFromChain and the handlers read.
ExtractAccounts(instructionType) ==
    CASE instructionType = "enterArena"       -> {"arena", "playerEntry"}
      [] instructionType = "claimOwnTokens"   -> {"arena", "playerEntry"}
      [] instructionType = "claimLoserTokens" -> {"arena", "loserEntry"}
      [] OTHER                                -> {"arena"}

\* refreshAccountsFromChain(accounts): arena first, then the entries.
RefreshAccountsFromChain(m, accounts, a, e) ==
    LET m1 == IF "arena" \in accounts THEN ProcessArena(m, a) ELSE m
    IN  IF accounts \cap {"playerEntry", "loserEntry"} # {} /\ e.exists
          THEN ProcessPlayerEntry(m1, e)
          ELSE m1

\* The rows a handler creates carry transactionSignature; a row of one kind
\* and signature exists once.
Handle(m, instructionType, signature) ==
    CASE instructionType = "enterArena" /\ m.arenaStatus # "none" ->
           [m EXCEPT !.signed = @ \cup {<<"action:enter_arena", signature>>,
                                        <<"event:player_joined", signature>>}]
      [] instructionType = "claimOwnTokens" /\ m.arenaStatus # "none" /\ m.entryExists ->
           [m EXCEPT !.signed = @ \cup {<<"reward:own_tokens", signature>>,
                                        <<"action:claim_own_tokens", signature>>}]
      [] instructionType = "claimLoserTokens" /\ m.arenaStatus # "none" /\ m.entryExists ->
           [m EXCEPT !.signed = @ \cup {<<"reward:loser_tokens", signature>>,
                                        <<"action:claim_loser_tokens", signature>>}]
      [] OTHER -> m

\* processTransaction(tx, signature, slot) for a transaction of one
\* instruction, the chain accounts being a and e when it is processed.
ProcessTransaction(m, signature, instructionType, a, e) ==
    LET m1 == [m EXCEPT !.txs = @ \cup {signature}]
        m2 == RefreshAccountsFromChain(m1, ExtractAccounts(instructionType), a, e)
    IN  Handle(m2, instructionType, signature)

\* ---- the chain program: each instruction confirms one transaction
Confirm(instructionType) ==
    /\ Len(ledger) < MaxLedger
    /\ ledger' = Append(ledger, instructionType)

ChainEnterArena ==
    /\ arenaAcct.status = "Waiting" /\ ~entryAcct.exists
    /\ \E asset \in Assets :
         entryAcct' = [entryAcct EXCEPT !.exists = TRUE, !.assetIndex = asset]
    /\ Confirm("enterArena")
    /\ UNCHANGED <<leaderVars, indexerVars, decodeVars, startSeqVars, ap,
                   lifeVars, endVars, arenaAcct, mirror>>

ChainStartArena ==
    /\ arenaAcct.status = "Waiting" /\ entryAcct.exists
    /\ arenaAcct' = [arenaAcct EXCEPT !.status = "Active"]
    /\ Confirm("startArena")
    /\ UNCHANGED <<leaderVars, indexerVars, decodeVars, startSeqVars, ap,
                   lifeVars, endVars, entryAcct, mirror>>

ChainEndArena ==
    /\ arenaAcct.status = "Active"
    /\ \E w \in Assets :
         /\ arenaAcct' = [arenaAcct EXCEPT !.status = "Ended", !.winningAsset = w]
         /\ entryAcct' = [entryAcct EXCEPT !.isWinner = (entryAcct.assetIndex = w)]
    /\ Confirm("endArena")
    /\ UNCHANGED <<leaderVars, indexerVars, decodeVars, startSeqVars, ap, lifeVars, endVars, mirror>>

ChainClaimOwnTokens ==
    /\ arenaAcct.status = "Ended" /\ entryAcct.isWinner /\ ~entryAcct.ownTokensClaimed
    /\ entryAcct' = [entryAcct EXCEPT !.ownTokensClaimed = TRUE]
    /\ Confirm("claimOwnTokens")
    /\ UNCHANGED <<leaderVars, indexerVars, decodeVars, startSeqVars, ap,
                   lifeVars, endVars, arenaAcct, mirror>>

ChainClaimLoserTokens ==
    /\ arenaAcct.status = "Ended" /\ ~entryAcct.isWinner
    /\ Confirm("claimLoserTokens")
    /\ UNCHANGED <<leaderVars, indexerVars, decodeVars, startSeqVars, ap,
                   lifeVars, endVars, arenaAcct, entryAcct, mirror>>

\* ---- the indexer: the poller or the backfill applies a transaction that has
\* no transaction row yet
ApplyTransaction ==
    /\ \E signature \in DOMAIN ledger :
         /\ signature \notin mirror.txs
         /\ mirror' = ProcessTransaction(mirror, signature, ledger[signature],
                                         arenaAcct, entryAcct)
    /\ UNCHANGED <<leaderVars, indexerVars, decodeVars, startSeqVars, ap,
                   lifeVars, endVars, ledger, arenaAcct, entryAcct>>

\* ---- the account subscription: processAccountUpdate for a changed account
ArenaAccountUpdate ==
    /\ mirror' = ProcessArena(mirror, arenaAcct)
    /\ UNCHANGED <<leaderVars, indexerVars, decodeVars, startSeqVars, ap,
                   lifeVars, endVars, ledger, arenaAcct, entryAcct>>

EntryAccountUpdate ==
    /\ entryAcct.exists /\ mirror' = ProcessPlayerEntry(mirror, entryAcct)
    /\ UNCHANGED <<leaderVars, indexerVars, decodeVars, startSeqVars, ap,
                   lifeVars, endVars, ledger, arenaAcct, entryAcct>>

AccountUpdate == ArenaAccountUpdate \/ EntryAccountUpdate

NextMirror ==
    \/ ChainEnterArena
    \/ ChainStartArena
    \/ ChainEndArena
    \/ ChainClaimOwnTokens
    \/ ChainClaimLoserTokens
    \/ ApplyTransaction
    \/ AccountUpdate

InitMirror == OneLeader /\ IndexerInit /\ RestInit

SpecMirror == InitMirror /\ [][NextMirror]_vars

\* ------------------------------------------------------------ mirror claims

\* C10: applying the same transaction a second time leaves the mirror
\* (transaction rows, arena and entry rows, events, player actions, counters)
\* exactly as it was after the first application.
C10_ReplayIdempotent ==
    \A signature \in DOMAIN ledger :
        LET once == ProcessTransaction(mirror, signature, ledger[signature],
                                       arenaAcct, entryAcct)
        IN  ProcessTransaction(once, signature, ledger[signature],
                               arenaAcct, entryAcct) = once

\* ======================================================= arena lifecycle
\* Executions of the transition of phase p in flight: inline ones (a path's
\* addJob running processStartArena / processEndArena) and the queue worker's.
InFlight(p) ==
    Cardinality({t \in Paths : tpc[t][p] \in {"exec", "sent"}})
      + (IF wpc[p] \in {"exec", "sent"} THEN 1 ELSE 0)

\* The program executes startArena on a waiting arena and endArena on an
\* active one; any other submission is rejected.
ChainAccepts(p) ==
    IF p = "start" THEN ~accepted["start"]
                   ELSE accepted["start"] /\ ~accepted["end"]

\* No call of addJob, execution or queued job of phase p is under way.
Quiet(p) ==
    /\ \A t \in Paths : tpc[t][p] \in {"idle", "done"}
    /\ wpc[p] = "idle" /\ job[p] \notin {"waiting", "active"}

\* The mirror's status of the arena: processArena writes Active when it sees
\* the started account (and calls onArenaReady), Ended with the ended one.
MirrorStatus ==
    IF accepted["end"] THEN "Ended"
    ELSE IF hookFired THEN "Active" ELSE "Waiting"

DueMutant(p) == FALSE

\* The arena is selected by the scanner of phase p: for its start while the
\* mirror has it Waiting and the countdown since its first entry has passed, for
\* its end while the mirror has it Active and its end time has passed (the
\* start executions are over long before).
Due(p) ==
    IF p = "start" THEN MirrorStatus = "Waiting" /\ countdownPassed
                   ELSE MirrorStatus = "Active" /\ Quiet("start")

\* A 'processing' row whose updatedAt is older than the stuck threshold.
Stuck(p) == psExists /\ psStatus[p] = "processing" /\ stale

\* The status a scanner or the recovery pass goes on with: a stuck
\* 'processing' is reset to 'failed' first.
AfterStuckReset(p) == IF Stuck(p) THEN "failed" ELSE psStatus[p]

\* An update of the row refreshes updatedAt.
Touched(status) == IF status # psStatus THEN FALSE ELSE stale

\* The stuck threshold passes without an update of the row; an execution in
\* flight or a queued retry is taken to finish within the threshold.
Age ==
    /\ ~stale /\ psExists
    /\ \A p \in Phases : InFlight(p) = 0 /\ job[p] \notin {"waiting", "active"}
    /\ \A t \in Paths, p \in Phases : tpc[t][p] \in {"idle", "done"}
    /\ stale' = TRUE /\ UNCHANGED countdownPassed
    /\ UNCHANGED <<leaderVars, indexerVars, decodeVars, startSeqVars, ap,
                   mirrorVars, endVars, psExists, psStatus, tpc, job,
                   attemptsMade, wpc, submitted, accepted, hookFired, restarts, retryCount>>

\* The wall clock passes the first entry's createdAt + waitingCountdownMs.
CountdownPasses ==
    /\ ~countdownPassed
    /\ countdownPassed' = TRUE
    /\ UNCHANGED <<leaderVars, indexerVars, decodeVars, startSeqVars, ap,
                   mirrorVars, endVars, psExists, psStatus, tpc, job,
                   attemptsMade, wpc, submitted, accepted, hookFired, stale, restarts, retryCount>>

\* The arenas recoverMissedArenas() looks at for phase p, by the literal
\* status values of its queries: for a start status 2 ("Ready" in the
\* comment, Active in ArenaStatus) and, only if stuck, Waiting ones; for an
\* end status 3 ("Active" in the comment, Ended in ArenaStatus).
RecoverySelects(p) ==
    IF p = "start" THEN \/ MirrorStatus = "Active"
                        \/ MirrorStatus = "Waiting" /\ Stuck("start")
                   ELSE MirrorStatus = "Ended"

\* addJob(): "if (existingState && ...) return null"
AddJobRejects(p, exists, status) ==
    IF p = "start" THEN exists /\ status \notin {"pending", "failed"}
                   ELSE exists /\ status = "completed"

\* The position of a path after its call of addJob returned.
Returned(t) == IF t = "recovery" THEN "done" ELSE "idle"

\* queue.add with a jobId: a job of that id that still exists is kept.
QueueAdd(p) == IF job[p] = "none" THEN "waiting" ELSE job[p]

\* A scanner tick (checkWaitingArenasCountdown, checkAndScheduleEndJobs) up
\* to the findUnique of addJob.
ScannerTick(p) ==
    /\ tpc["scanner"][p] = "idle"
    /\ Due(p)
    /\ LET status == AfterStuckReset(p)
       IN  /\ psStatus' = [psStatus EXCEPT ![p] = status]
           /\ stale' = Touched([psStatus EXCEPT ![p] = status])
           /\ UNCHANGED countdownPassed
           /\ IF (psExists /\ status \in {"processing", "completed"})
                    \/ AddJobRejects(p, psExists, status)
                THEN UNCHANGED tpc
                ELSE tpc' = [tpc EXCEPT !["scanner"][p] = "checked"]
    /\ UNCHANGED <<leaderVars, indexerVars, decodeVars, startSeqVars, ap,
                   mirrorVars, endVars, psExists, job, attemptsMade,
                   wpc, submitted, accepted, hookFired, restarts, retryCount>>

\* processArena saw the arena go Waiting -> Active: onArenaReady -> addJob.
OnArenaReady ==
    /\ accepted["start"] /\ ~hookFired
    /\ tpc["hook"]["start"] = "idle"
    /\ hookFired' = TRUE
    /\ IF AddJobRejects("start", psExists, psStatus["start"])
         THEN UNCHANGED tpc
         ELSE tpc' = [tpc EXCEPT !["hook"]["start"] = "checked"]
    /\ UNCHANGED <<leaderVars, indexerVars, decodeVars, startSeqVars, ap,
                   mirrorVars, endVars, psExists, psStatus, job,
                   attemptsMade, wpc, submitted, accepted, restarts, retryCount>>
    /\ UNCHANGED <<stale, countdownPassed>>

\* recoverMissedArenas(), once after the process started, for phase p.
RecoverMissedArenas(p) ==
    /\ tpc["recovery"][p] = "idle"
    /\ LET status == IF RecoverySelects(p) THEN AfterStuckReset(p) ELSE psStatus[p]
           wanted == IF p = "start" THEN {"pending", "failed"}
                                    ELSE {"pending", "scheduled", "failed"}
       IN  /\ psStatus' = [psStatus EXCEPT ![p] = status]
           /\ stale' = Touched([psStatus EXCEPT ![p] = status])
           /\ UNCHANGED countdownPassed
           /\ IF RecoverySelects(p) /\ (~psExists \/ status \in wanted)
                        /\ ~AddJobRejects(p, psExists, status)
                THEN tpc' = [tpc EXCEPT !["recovery"][p] = "checked"]
                ELSE tpc' = [tpc EXCEPT !["recovery"][p] = "done"]
    /\ UNCHANGED <<leaderVars, indexerVars, decodeVars, startSeqVars, ap,
                   mirrorVars, endVars, psExists, job, attemptsMade,
                   wpc, submitted, accepted, hookFired, restarts, retryCount>>

\* addJob(): the upsert to 'processing'; the inline execution starts.
AddJobUpsert(t, p) ==
    /\ tpc[t][p] = "checked"
    /\ psExists' = TRUE
    /\ psStatus' = IF ~psExists /\ p = "end"
                     THEN [psStatus EXCEPT !["start"] = "completed", !["end"] = "processing"]
                     ELSE [psStatus EXCEPT ![p] = "processing"]
    /\ tpc' = [tpc EXCEPT ![t][p] = "exec"]
    /\ UNCHANGED <<leaderVars, indexerVars, decodeVars, startSeqVars, ap,
                   mirrorVars, endVars, job, attemptsMade, wpc,
                   submitted, accepted, hookFired, restarts, retryCount>>
    /\ stale' = FALSE /\ UNCHANGED countdownPassed

\* Inline: transactionSender.startArena / endArena was sent and executed.
InlineSubmit(t, p) ==
    /\ tpc[t][p] = "exec"
    /\ submitted[p] < MaxSubmissions
    /\ ChainAccepts(p)
    /\ submitted' = [submitted EXCEPT ![p] = @ + 1]
    /\ accepted' = [accepted EXCEPT ![p] = TRUE]
    /\ tpc' = [tpc EXCEPT ![t][p] = "sent"]
    /\ UNCHANGED <<leaderVars, indexerVars, decodeVars, startSeqVars, ap,
                   mirrorVars, endVars, psExists, psStatus, job,
                   attemptsMade, wpc, hookFired, restarts, retryCount>>
    /\ UNCHANGED <<stale, countdownPassed>>

\* Inline: the execution threw, before the submission (end phase only: the
\* end-time check, the prices), at it (sent, then rejected or lost) or after
\* it; the catch of addJob queues the job and records 'failed', or
\* 'scheduled' for an end that was too early.
InlineThrow(t, p) ==
    /\ tpc[t][p] \in {"exec", "sent"}
    /\ \E sent \in BOOLEAN :
         /\ sent => tpc[t][p] = "exec" /\ submitted[p] < MaxSubmissions
         /\ (~sent /\ tpc[t][p] = "exec") => p = "end"
         /\ submitted' = [submitted EXCEPT ![p] = IF sent THEN @ + 1 ELSE @]
    /\ \E status \in (IF p = "end" /\ tpc[t][p] = "exec" THEN {"failed", "scheduled"}
                                                        ELSE {"failed"}) :
         psStatus' = [psStatus EXCEPT ![p] = status]
    /\ job' = [job EXCEPT ![p] = QueueAdd(p)]
    /\ tpc' = [tpc EXCEPT ![t][p] = Returned(t)]
    /\ UNCHANGED <<leaderVars, indexerVars, decodeVars, startSeqVars, ap,
                   mirrorVars, endVars, psExists, attemptsMade, wpc,
                   accepted, hookFired, restarts, retryCount>>
    /\ stale' = FALSE /\ UNCHANGED countdownPassed

\* The end of processStartArena / processEndArena: 'completed' (and, for a
\* start, endStatus 'scheduled' as the arena is active).
Completed(p) ==
    IF p = "start" THEN [psStatus EXCEPT !["start"] = "completed", !["end"] = "scheduled"]
                   ELSE [psStatus EXCEPT !["end"] = "completed"]

\* What the completion of a phase writes to the arena row of the mirror: the
\* update goes to arena_processing_state only, the arena row stays as it is.
ArenaRowOnCompleteMutant(m, p) ==
    [m EXCEPT !.arenaStatus = IF p = "start" THEN "Active" ELSE "Ended"]
ArenaRowOnComplete(m, p) == m

\* Inline: the execution returned; addJob still queues the job.
InlineComplete(t, p) ==
    /\ tpc[t][p] = "sent"
    /\ psStatus' = Completed(p)
    /\ job' = [job EXCEPT ![p] = QueueAdd(p)]
    /\ tpc' = [tpc EXCEPT ![t][p] = Returned(t)]
    /\ mirror' = ArenaRowOnComplete(mirror, p)
    /\ UNCHANGED <<leaderVars, indexerVars, decodeVars, startSeqVars, ap,
                   ledger, arenaAcct, entryAcct, endVars, psExists,
                   attemptsMade, wpc, submitted, accepted, hookFired, restarts, retryCount>>
    /\ stale' = FALSE /\ UNCHANGED countdownPassed

\* The queue worker takes the waiting job: processJob runs the transition.
ProcessJob(p) ==
    /\ job[p] = "waiting" /\ wpc[p] = "idle"
    /\ job' = [job EXCEPT ![p] = "active"]
    /\ wpc' = [wpc EXCEPT ![p] = "exec"]
    /\ UNCHANGED <<leaderVars, indexerVars, decodeVars, startSeqVars, ap,
                   mirrorVars, endVars, psExists, psStatus, tpc,
                   attemptsMade, submitted, accepted, hookFired, restarts, retryCount>>
    /\ UNCHANGED <<stale, countdownPassed>>

WorkerSubmit(p) ==
    /\ wpc[p] = "exec"
    /\ submitted[p] < MaxSubmissions
    /\ ChainAccepts(p)
    /\ submitted' = [submitted EXCEPT ![p] = @ + 1]
    /\ accepted' = [accepted EXCEPT ![p] = TRUE]
    /\ wpc' = [wpc EXCEPT ![p] = "sent"]
    /\ UNCHANGED <<leaderVars, indexerVars, decodeVars, startSeqVars, ap,
                   mirrorVars, endVars, psExists, psStatus, tpc, job,
                   attemptsMade, hookFired, restarts, retryCount>>
    /\ UNCHANGED <<stale, countdownPassed>>

\* The sub-status processJob's catch writes when the job has failed made
\* times before this attempt (job.attemptsMade).
StatusOnThrowMutant(made) == IF made >= maxRetryAttempts THEN "failed" ELSE "processing"
StatusOnThrow(made) == IF made >= maxRetryAttempts - 1 THEN "failed" ELSE "processing"

\* processJob's catch: the status by attemptsMade, then the job is retried
\* or, after the last attempt, failed.
WorkerThrow(p) ==
    /\ wpc[p] \in {"exec", "sent"}
    /\ \E sent \in BOOLEAN :
         /\ sent => wpc[p] = "exec" /\ submitted[p] < MaxSubmissions
         /\ (~sent /\ wpc[p] = "exec") => p = "end"
         /\ submitted' = [submitted EXCEPT ![p] = IF sent THEN @ + 1 ELSE @]
    /\ psStatus' = [psStatus EXCEPT ![p] = StatusOnThrow(attemptsMade[p])]
    /\ retryCount' = attemptsMade[p] + 1
    /\ attemptsMade' = [attemptsMade EXCEPT ![p] = @ + 1]
    /\ job' = [job EXCEPT ![p] = IF attemptsMade[p] + 1 >= attempts THEN "failed"
                                                                    ELSE "waiting"]
    /\ wpc' = [wpc EXCEPT ![p] = "idle"]
    /\ UNCHANGED <<leaderVars, indexerVars, decodeVars, startSeqVars, ap,
                   mirrorVars, endVars, psExists, tpc, accepted,
                   hookFired, restarts>>
    /\ stale' = FALSE /\ UNCHANGED countdownPassed

WorkerComplete(p) ==
    /\ wpc[p] = "sent"
    /\ psStatus' = Completed(p)
    /\ job' = [job EXCEPT ![p] = "completed"]
    /\ wpc' = [wpc EXCEPT ![p] = "idle"]
    /\ mirror' = ArenaRowOnComplete(mirror, p)
    /\ UNCHANGED <<leaderVars, indexerVars, decodeVars, startSeqVars, ap,
                   ledger, arenaAcct, entryAcct, endVars, psExists,
                   tpc, attemptsMade, submitted, accepted, hookFired, restarts, retryCount>>
    /\ stale' = FALSE /\ UNCHANGED countdownPassed

\* The process is restarted: its executions are gone, the row and the queue
\* stay; an active job is stalled and goes back to waiting.
Restart ==
    /\ restarts < MaxRestarts
    /\ restarts' = restarts + 1
    /\ tpc' = [t \in Paths |-> [p \in Phases |-> "idle"]]
    /\ wpc' = [p \in Phases |-> "idle"]
    /\ job' = [p \in Phases |-> IF job[p] = "active" THEN "waiting" ELSE job[p]]
    /\ UNCHANGED <<leaderVars, indexerVars, decodeVars, startSeqVars, ap,
                   mirrorVars, endVars, psExists, psStatus,
                   attemptsMade, submitted, accepted, hookFired>>
    /\ UNCHANGED <<stale, countdownPassed, retryCount>>

NextLife ==
    \/ \E p \in Phases : ScannerTick(p)
    \/ OnArenaReady
    \/ \E p \in Phases : RecoverMissedArenas(p)
    \/ \E t \in Paths, p \in Phases : AddJobUpsert(t, p)
    \/ \E t \in Paths, p \in Phases : InlineSubmit(t, p)
    \/ \E t \in Paths, p \in Phases : InlineThrow(t, p)
    \/ \E t \in Paths, p \in Phases : InlineComplete(t, p)
    \/ \E p \in Phases : ProcessJob(p)
    \/ \E p \in Phases : WorkerSubmit(p)
    \/ \E p \in Phases : WorkerThrow(p)
    \/ \E p \in Phases : WorkerComplete(p)
    \/ Age
    \/ CountdownPasses
    \/ Restart

InitLife == OneLeader /\ IndexerInit /\ RestInit

SpecLife == InitLife /\ [][NextLife]_vars

\* The scanners run on their intervals, the recovery pass runs after the
\* start of the process, a call of addJob goes on to its upsert, an accepted
\* submission returns, the queue worker takes a waiting job, and the mirror
\* learns of the started arena.
LifeFairness ==
    /\ \A p \in Phases : WF_vars(ScannerTick(p)) /\ WF_vars(RecoverMissedArenas(p))
    /\ \A t \in Paths, p \in Phases :
         WF_vars(AddJobUpsert(t, p)) /\ WF_vars(InlineSubmit(t, p))
           /\ WF_vars(InlineComplete(t, p))
    /\ \A p \in Phases :
         WF_vars(ProcessJob(p)) /\ WF_vars(WorkerSubmit(p)) /\ WF_vars(WorkerComplete(p))
    /\ WF_vars(OnArenaReady) /\ WF_vars(CountdownPasses)

SpecLifeFair == InitLife /\ [][NextLife]_vars /\ LifeFairness

\* ============================================================ arena end
\* The end of one active arena with the clock: the scheduler of EndWorker,
\* addJob with its inline processEndArena, and the queue worker. Reads of the
\* chain and of the prices succeed.

\* "remainingSeconds = onChainEndTimestamp - nowSeconds"
Remaining == onChainEnd - now

Max0(n) == IF n > 0 THEN n ELSE 0

\* The program on the chain takes an end price and the end of the arena once
\* its own clock reached the end time (else ArenaDurationNotComplete, 0x1775).
ChainTakesEnd == ~ended /\ now - lag >= onChainEnd

\* BullMQ's exponential backoff before the retry after attempt n.
RECURSIVE Pow2(_)
Pow2(n) == IF n = 0 THEN 1 ELSE 2 * Pow2(n - 1)

Backoff(n) == BACKOFF_DELAY * Pow2(n - 1)

\* The two queries of checkAndScheduleEndJobs select the arena: the row is
\* 'scheduled' and due, or the mirror has the arena Active and due and its
\* row is neither 'processing' nor 'completed'.
ScanCutoffPassed == mirrorEnd + END_SCAN_BUFFER <= now

EndQuery1 == endStatus = "scheduled" /\ ScanCutoffPassed /\ ~ended

EndQuery2 == ~ended /\ ScanCutoffPassed /\ endStatus \notin {"processing", "completed"}

EndClockTick ==
    /\ now < MaxClock
    /\ now' = now + 1
    /\ UNCHANGED <<leaderVars, indexerVars, decodeVars, startSeqVars, ap,
                   mirrorVars, lifeVars, mirrorEnd, onChainEnd,
                   lag, endStatus, scanPc, xpc, wake, ejob, readyAt, eattempts, ended,
                   outcome, notBefore>>

\* A tick of the scheduler up to the upsert of its first addJob, which
\* starts processEndArena inline.
EndScannerTick ==
    /\ scanPc = "idle" /\ xpc["inline"] = "idle"
    /\ EndQuery1 \/ EndQuery2
    /\ scanPc' = IF EndQuery1 THEN "q1" ELSE "q2"
    /\ endStatus' = "processing"
    /\ xpc' = [xpc EXCEPT !["inline"] = "check"]
    /\ UNCHANGED <<leaderVars, indexerVars, decodeVars, startSeqVars, ap,
                   mirrorVars, lifeVars, now, mirrorEnd,
                   onChainEnd, lag, wake, ejob, readyAt, eattempts, ended, outcome,
                   notBefore>>

\* addJob returned to the scheduler: after the first loop its second query
\* runs and may call addJob again; after the second loop the tick is over.
EndScannerNext ==
    /\ scanPc \in {"q1", "q2"} /\ xpc["inline"] = "idle"
    /\ IF scanPc = "q1" /\ EndQuery2
         THEN /\ scanPc' = "q2"
              /\ endStatus' = "processing"
              /\ xpc' = [xpc EXCEPT !["inline"] = "check"]
         ELSE /\ scanPc' = "idle"
              /\ UNCHANGED <<endStatus, xpc>>
    /\ UNCHANGED <<leaderVars, indexerVars, decodeVars, startSeqVars, ap,
                   mirrorVars, lifeVars, now, mirrorEnd,
                   onChainEnd, lag, wake, ejob, readyAt, eattempts, ended, outcome,
                   notBefore>>

\* queue.add with jobId end-<arenaId>: a job of that id that exists is kept.
EndQueueAdd(state, at) ==
    /\ ejob' = IF ejob = "none" THEN state ELSE ejob
    /\ readyAt' = IF ejob = "none" THEN at ELSE readyAt

\* The execution of x threw "duration not complete". Inline, the catch of
\* addJob reads the chain again, queues the job with the delay and records
\* 'scheduled'; in the worker, the catch of processJob records the status by
\* attemptsMade and BullMQ retries the job after its backoff.
Rejected(x) ==
    /\ outcome' = [outcome EXCEPT ![x] = "rejected"]
    /\ notBefore' = now + Max0(Remaining) + RETRY_BUFFER
    /\ xpc' = [xpc EXCEPT ![x] = "idle"]
    /\ IF x = "inline"
         THEN /\ EndQueueAdd("delayed", now + Max0(Remaining) + RETRY_BUFFER)
              /\ endStatus' = "scheduled"
              /\ UNCHANGED eattempts
         ELSE /\ endStatus' = IF eattempts >= maxRetryAttempts - 1 THEN "failed"
                                                                   ELSE "processing"
              /\ eattempts' = eattempts + 1
              /\ ejob' = IF eattempts + 1 >= attempts THEN "failed" ELSE "delayed"
              /\ readyAt' = now + Backoff(eattempts + 1)
    /\ UNCHANGED <<ended, wake>>

\* The execution of x threw another error (the arena is ended already).
Failed(x) ==
    /\ outcome' = [outcome EXCEPT ![x] = "failed"]
    /\ xpc' = [xpc EXCEPT ![x] = "idle"]
    /\ IF x = "inline"
         THEN /\ EndQueueAdd("waiting", now)
              /\ endStatus' = "failed"
              /\ UNCHANGED eattempts
         ELSE /\ endStatus' = IF eattempts >= maxRetryAttempts - 1 THEN "failed"
                                                                   ELSE "processing"
              /\ eattempts' = eattempts + 1
              /\ ejob' = IF eattempts + 1 >= attempts THEN "failed" ELSE "delayed"
              /\ readyAt' = now + Backoff(eattempts + 1)
    /\ UNCHANGED <<ended, wake, notBefore>>

\* The end prices and endArena were executed: 'completed'; addJob still
\* queues the job.
EndCompleted(x) ==
    /\ ended' = TRUE
    /\ endStatus' = "completed"
    /\ outcome' = [outcome EXCEPT ![x] = "completed"]
    /\ xpc' = [xpc EXCEPT ![x] = "idle"]
    /\ IF x = "inline" THEN EndQueueAdd("waiting", now)
                       ELSE ejob' = "completed" /\ UNCHANGED readyAt
    /\ UNCHANGED <<eattempts, wake, notBefore>>

\* processEndArena: the end time is read from the chain; with more than
\* END_CHECK_SLACK seconds remaining the execution throws.
PreCheck(x) ==
    /\ xpc[x] = "check"
    /\ IF Remaining > END_CHECK_SLACK
         THEN Rejected(x)
         ELSE /\ xpc' = [xpc EXCEPT ![x] = "prices"]
              /\ UNCHANGED <<endStatus, ejob, readyAt, eattempts, ended, wake, outcome,
                             notBefore>>
    /\ UNCHANGED <<leaderVars, indexerVars, decodeVars, startSeqVars, ap,
                   mirrorVars, lifeVars, now, mirrorEnd,
                   onChainEnd, lag, scanPc>>

\* processEndArena: setEndPrice is submitted. On 0x1775 the end time is read
\* again: with time remaining the execution sleeps and retries, else it throws.
SubmitEnd(x) ==
    /\ xpc[x] = "prices"
    /\ IF ChainTakesEnd THEN EndCompleted(x)
       ELSE IF ended THEN Failed(x)
       ELSE IF Remaining > 0
         THEN /\ xpc' = [xpc EXCEPT ![x] = "sleep"]
              /\ wake' = [wake EXCEPT ![x] = now + Remaining + WAIT_BUFFER]
              /\ UNCHANGED <<endStatus, ejob, readyAt, eattempts, ended, outcome,
                             notBefore>>
         ELSE Rejected(x)
    /\ UNCHANGED <<leaderVars, indexerVars, decodeVars, startSeqVars, ap,
                   mirrorVars, lifeVars, now, mirrorEnd,
                   onChainEnd, lag, scanPc>>

\* The sleep is over: setEndPrice is submitted again, outside any catch.
RetryEnd(x) ==
    /\ xpc[x] = "sleep" /\ now >= wake[x]
    /\ IF ChainTakesEnd THEN EndCompleted(x)
       ELSE IF ended THEN Failed(x)
       ELSE Rejected(x)
    /\ UNCHANGED <<leaderVars, indexerVars, decodeVars, startSeqVars, ap,
                   mirrorVars, lifeVars, now, mirrorEnd,
                   onChainEnd, lag, scanPc>>

\* The queue worker takes the job once it is waiting or its delay is over.
EndProcessJob ==
    /\ xpc["worker"] = "idle"
    /\ ejob = "waiting" \/ (ejob = "delayed" /\ now >= readyAt)
    /\ ejob' = "active"
    /\ xpc' = [xpc EXCEPT !["worker"] = "check"]
    /\ UNCHANGED <<leaderVars, indexerVars, decodeVars, startSeqVars, ap,
                   mirrorVars, lifeVars, now, mirrorEnd,
                   onChainEnd, lag, endStatus, scanPc, wake, readyAt, eattempts, ended,
                   outcome, notBefore>>

NextEnd ==
    \/ EndClockTick
    \/ EndScannerTick
    \/ EndScannerNext
    \/ \E x \in Executors : PreCheck(x)
    \/ \E x \in Executors : SubmitEnd(x)
    \/ \E x \in Executors : RetryEnd(x)
    \/ EndProcessJob

\* The database's end time, the chain's and the lag of the chain's clock are
\* the inputs.
InitEnd ==
    /\ OneLeader /\ IndexerInit /\ MirrorInit /\ LifeInit /\ EndIdle
    /\ DecodeRest /\ StartSeqRest /\ ApRest
    /\ mirrorEnd \in 1..MaxEndTime
    /\ onChainEnd \in mirrorEnd..(mirrorEnd + MaxDrift)
    /\ lag \in 0..MaxLag

SpecEnd == InitEnd /\ [][NextEnd]_vars

\* ------------------------------------------------------ the account parsers
\* A parser is a sequence of field accesses from offset 8 on (the
\* discriminator is skipped). A field is read in one of three ways:
\*   "read"  data.readUInt8 / readBigInt64LE / readBigUInt64LE (offset):
\*           throws ERR_OUT_OF_RANGE unless the whole field is in the buffer;
\*   "slice" data.slice(offset, offset + width): clamped to the buffer, it
\*           returns the bytes there are, none included;
\*   "key"   new PublicKey(data.slice(offset, offset + 32)): the slice is
\*           clamped, and the constructor rejects only more than 32 bytes.
AccountTypes == {"GlobalState", "Arena", "PlayerEntry", "WhitelistedToken"}

Field(kind, width) == [kind |-> kind, width |-> width]

RECURSIVE Rep(_, _)
Rep(f, n) == IF n = 0 THEN <<>> ELSE <<f>> \o Rep(f, n - 1)

\* parseGlobalState: admin, treasury_wallet, arena_duration, entry_fee,
\* current_arena_id, is_paused, bump.
GlobalStateFields ==
    Rep(Field("key", PUBLIC_KEY_LENGTH), 2) \o Rep(Field("read", 8), 3)
        \o Rep(Field("read", 1), 2)

\* parseArena: id, six one-byte fields, three timestamps and amounts, the
\* ten token slots (each a readUInt8), the ten player addresses.
ArenaFields ==
    <<Field("read", 8)>> \o Rep(Field("read", 1), 6) \o Rep(Field("read", 8), 3)
        \o Rep(Field("read", 1), 10) \o Rep(Field("key", PUBLIC_KEY_LENGTH), 10)

\* parsePlayerEntry: arena, player, asset_index, player_index, five 8-byte
\* numbers, is_winner, has_claimed, bump.
PlayerEntryFields ==
    Rep(Field("key", PUBLIC_KEY_LENGTH), 2) \o Rep(Field("read", 1), 2)
        \o Rep(Field("read", 8), 5) \o Rep(Field("read", 1), 3)

\* parseWhitelistedToken: four one-byte fields, token_address as a
\* Uint8Array of a slice, symbol as a slice.
WhitelistedTokenFields ==
    Rep(Field("read", 1), 4) \o <<Field("slice", 32), Field("slice", 10)>>

Fields(t) ==
    CASE t = "GlobalState" -> GlobalStateFields
      [] t = "Arena" -> ArenaFields
      [] t = "PlayerEntry" -> PlayerEntryFields
      [] t = "WhitelistedToken" -> WhitelistedTokenFields

RECURSIVE Width(_)
Width(fields) == IF fields = <<>> THEN 0 ELSE Head(fields).width + Width(Tail(fields))

\* The fixed layout of an account: the discriminator and the fields.
Layout(t) == DISCRIMINATOR_LENGTH + Width(Fields(t))

\* Buffer.slice(offset, offset + width).length on a buffer of length len.
SliceLength(len, offset, width) == Min(len, offset + width) - Min(len, offset)

\* The field accesses in order: the first access that throws ends the parser;
\* otherwise the record is built from the bytes the accesses returned.
RECURSIVE ParseFrom(_, _, _, _)
ParseFrom(fields, offset, len, bytes) ==
    IF fields = <<>>
    THEN [called |-> TRUE, threw |-> FALSE, bytes |-> bytes]
    ELSE LET f == Head(fields)
             got == SliceLength(len, offset, f.width)
         IN  IF f.kind = "read" /\ offset + f.width > len
             THEN [called |-> TRUE, threw |-> TRUE, bytes |-> 0]
             ELSE ParseFrom(Tail(fields), offset + f.width, len, bytes + got)

\* parseGlobalState(data), parseArena(data), parsePlayerEntry(data),
\* parseWhitelistedToken(data), for data of length len.
Parse(t, len) == ParseFrom(Fields(t), DISCRIMINATOR_LENGTH, len, 0)

ParseAccount ==
    /\ ~parsed.called
    /\ parsed' = Parse(accountType, dataLength)
    /\ UNCHANGED <<leaderVars, indexerVars, mirrorVars, lifeVars, endVars, ap, startSeqVars,
                   dataLength, accountType>>

InitDecode ==
    /\ OneLeader /\ IndexerInit /\ MirrorInit /\ LifeInit /\ EndRest /\ StartSeqRest /\ ApRest
    /\ dataLength \in 0..MaxDataLength
    /\ accountType \in AccountTypes
    /\ parsed = NotParsed

SpecDecode == InitDecode /\ [][ParseAccount]_vars

\* C27: a buffer shorter than the fixed layout of its account type makes the
\* parser throw; no record is built from a partial buffer.
C27_ShortBufferFails ==
    (parsed.called /\ dataLength < Layout(accountType)) => parsed.threw

\* ------------------------------------------------- processStartArena()
\* One run of processStartArena, statement by statement. A row of
\* playerEntries is "priced" (its asset is known and Pyth returned its price),
\* "noAsset" (ASSETS has no such index) or "noPrice" (no price for its symbol).
EntryKinds == {"priced", "noAsset", "noPrice"}

RECURSIVE SeqsUpTo(_, _)
SeqsUpTo(S, n) ==
    IF n = 0 THEN {<<>>}
    ELSE LET shorter == SeqsUpTo(S, n - 1)
         IN  shorter \cup {Append(q, x) : q \in shorter, x \in S}

Call(op, instruction, entry) == [op |-> op, instruction |-> instruction, entry |-> entry]

\* "await f()": the run stays at the call until it returns or throws.
AwaitMutant(at) == "delay"
Await(at) == at

\* Step 1: transactionSender.startArena(arenaId) is sent.
SendStartArena ==
    /\ spos = "idle"
    /\ spos' = "startArena"
    /\ calls' = Append(calls, Call("send", "startArena", 0))
    /\ UNCHANGED <<leaderVars, indexerVars, mirrorVars, lifeVars, endVars, ap, decodeVars,
                   playerEntries, entryIndex>>

\* sendAndConfirmTransaction returned the signature, or threw.
StartArenaReturns ==
    /\ spos = "startArena"
    /\ \E ok \in BOOLEAN :
         /\ spos' = IF ok THEN "sleep" ELSE "threw"
         /\ calls' = Append(calls, Call(IF ok THEN "return" ELSE "throw", "startArena", 0))
    /\ UNCHANGED <<leaderVars, indexerVars, mirrorVars, lifeVars, endVars, ap, decodeVars,
                   playerEntries, entryIndex>>

\* sleep(1000), then Step 2: findMany; no rows: throw.
FindPlayerEntries ==
    /\ spos = "sleep"
    /\ spos' = IF Len(playerEntries) = 0 THEN "threw" ELSE "pyth"
    /\ UNCHANGED <<leaderVars, indexerVars, mirrorVars, lifeVars, endVars, ap, decodeVars,
                   playerEntries, entryIndex, calls>>

\* Step 3: fetchPricesFromPyth; no price at all: throw.
FetchPrices ==
    /\ spos = "pyth"
    /\ IF \E k \in DOMAIN playerEntries : playerEntries[k] = "priced"
         THEN spos' = "loop" /\ entryIndex' = 1
         ELSE spos' = "threw" /\ UNCHANGED entryIndex
    /\ UNCHANGED <<leaderVars, indexerVars, mirrorVars, lifeVars, endVars, ap, decodeVars,
                   playerEntries, calls>>

\* Step 4, the head of the for-loop: past the last row the loop ends; a row
\* without asset or price is skipped; otherwise setStartPrice is sent.
LoopStep ==
    /\ spos = "loop"
    /\ IF entryIndex > Len(playerEntries)
         THEN spos' = "update" /\ UNCHANGED <<entryIndex, calls>>
         ELSE IF playerEntries[entryIndex] # "priced"
                THEN entryIndex' = entryIndex + 1 /\ UNCHANGED <<spos, calls>>
                ELSE /\ spos' = Await("setStartPrice")
                     /\ calls' = Append(calls, Call("send", "setStartPrice", entryIndex))
                     /\ UNCHANGED entryIndex
    /\ UNCHANGED <<leaderVars, indexerVars, mirrorVars, lifeVars, endVars, ap, decodeVars,
                   playerEntries>>

\* setStartPrice returned, or threw.
SetStartPriceReturns ==
    /\ spos = "setStartPrice"
    /\ \E ok \in BOOLEAN :
         /\ spos' = IF ok THEN "delay" ELSE "threw"
         /\ calls' = Append(calls, Call(IF ok THEN "return" ELSE "throw",
                                        "setStartPrice", entryIndex))
    /\ UNCHANGED <<leaderVars, indexerVars, mirrorVars, lifeVars, endVars, ap, decodeVars,
                   playerEntries, entryIndex>>

\* sleep(priceSetDelayMs), then the next row.
PriceSetDelay ==
    /\ spos = "delay"
    /\ spos' = "loop"
    /\ entryIndex' = entryIndex + 1
    /\ UNCHANGED <<leaderVars, indexerVars, mirrorVars, lifeVars, endVars, ap, decodeVars,
                   playerEntries, calls>>

\* The update of the processing state to 'completed': the run is over.
UpdateCompleted ==
    /\ spos = "update"
    /\ spos' = "done"
    /\ UNCHANGED <<leaderVars, indexerVars, mirrorVars, lifeVars, endVars, ap, decodeVars,
                   playerEntries, entryIndex, calls>>

NextStartSeq ==
    \/ SendStartArena
    \/ StartArenaReturns
    \/ FindPlayerEntries
    \/ FetchPrices
    \/ LoopStep
    \/ SetStartPriceReturns
    \/ PriceSetDelay
    \/ UpdateCompleted

InitStartSeq ==
    /\ OneLeader /\ IndexerInit /\ MirrorInit /\ LifeInit /\ EndRest /\ DecodeRest /\ ApRest
    /\ playerEntries \in SeqsUpTo(EntryKinds, MaxEntries)
    /\ spos = "idle"
    /\ entryIndex = 0
    /\ calls = <<>>

SpecStartSeq == InitStartSeq /\ [][NextStartSeq]_vars

\* The sends of the history that have not returned or thrown before position k.
Outstanding(k) ==
    {j \in 1..(k - 1) :
        /\ calls[j].op = "send"
        /\ \A r \in (j + 1)..(k - 1) :
              ~(/\ calls[r].op \in {"return", "throw"}
                /\ calls[r].instruction = calls[j].instruction
                /\ calls[r].entry = calls[j].entry)}

\* C30: in a start transition a priced-entry instruction (setStartPrice) is
\* sent only after startArena was sent and has returned, and every instruction
\* is sent only when no earlier one is still outstanding.
C30_StartThenEntriesOneAtATime ==
    \A k \in DOMAIN calls :
        calls[k].op = "send" =>
            /\ Outstanding(k) = {}
            /\ calls[k].instruction = "setStartPrice" =>
                  \E j \in 1..(k - 1) :
                      calls[j] = Call("return", "startArena", 0)

C30_Witness ==
    /\ spos = "done"
    /\ Cardinality({k \in DOMAIN calls :
                       calls[k].op = "send" /\ calls[k].instruction = "setStartPrice"}) >= 2

\* --------------------------------------------------- processEndArena()
\* One run of processEndArena on the same variables: the rows of
\* playerEntries, the position, the loop index and the history of calls.

\* getArenaInfo and the end-time check: null or more than a second left: throw.
EndCheckTime ==
    /\ spos = "idle"
    /\ \E ok \in BOOLEAN : spos' = IF ok THEN "find" ELSE "threw"
    /\ UNCHANGED <<leaderVars, indexerVars, mirrorVars, lifeVars, endVars, ap, decodeVars,
                   playerEntries, entryIndex, calls>>

\* findMany and fetchPricesFromCMC: no row, or no price at all: throw.
EndFindPrices ==
    /\ spos = "find"
    /\ IF \E k \in DOMAIN playerEntries : playerEntries[k] = "priced"
         THEN spos' = "endLoop" /\ entryIndex' = 1
         ELSE spos' = "threw" /\ UNCHANGED entryIndex
    /\ UNCHANGED <<leaderVars, indexerVars, mirrorVars, lifeVars, endVars, ap, decodeVars,
                   playerEntries, calls>>

\* The head of the for-loop: a row without asset or price is skipped,
\* otherwise setEndPrice is sent; past the last row endArena is sent with the
\* wallets of all rows of playerEntries.
EndLoopStep ==
    /\ spos = "endLoop"
    /\ IF entryIndex > Len(playerEntries)
         THEN /\ spos' = "endArena"
              /\ calls' = Append(calls, Call("send", "endArena", Len(playerEntries)))
              /\ UNCHANGED entryIndex
         ELSE IF playerEntries[entryIndex] # "priced"
                THEN entryIndex' = entryIndex + 1 /\ UNCHANGED <<spos, calls>>
                ELSE /\ spos' = "setEndPrice"
                     /\ calls' = Append(calls, Call("send", "setEndPrice", entryIndex))
                     /\ UNCHANGED entryIndex
    /\ UNCHANGED <<leaderVars, indexerVars, mirrorVars, lifeVars, endVars, ap, decodeVars,
                   playerEntries>>

\* setEndPrice returned; or it threw ArenaDurationNotComplete with time left:
\* sleep, then the one retry is sent; or it threw and the run rethrows. The
\* retry's throw is not caught.
SetEndPriceReturns ==
    /\ spos \in {"setEndPrice", "setEndPriceRetry"}
    /\ \/ /\ spos' = "endDelay"
          /\ calls' = Append(calls, Call("return", "setEndPrice", entryIndex))
       \/ /\ spos = "setEndPrice"
          /\ spos' = "setEndPriceRetry"
          /\ calls' = calls \o <<Call("throw", "setEndPrice", entryIndex),
                                 Call("send", "setEndPrice", entryIndex)>>
       \/ /\ spos' = "threw"
          /\ calls' = Append(calls, Call("throw", "setEndPrice", entryIndex))
    /\ UNCHANGED <<leaderVars, indexerVars, mirrorVars, lifeVars, endVars, ap, decodeVars,
                   playerEntries, entryIndex>>

\* sleep(priceSetDelayMs), then the next row.
EndPriceSetDelay ==
    /\ spos = "endDelay"
    /\ spos' = "endLoop"
    /\ entryIndex' = entryIndex + 1
    /\ UNCHANGED <<leaderVars, indexerVars, mirrorVars, lifeVars, endVars, ap, decodeVars,
                   playerEntries, calls>>

\* endArena returned: the update of end_status to 'completed'; or it threw.
EndArenaReturns ==
    /\ spos = "endArena"
    /\ \E ok \in BOOLEAN :
         /\ spos' = IF ok THEN "done" ELSE "threw"
         /\ calls' = Append(calls, Call(IF ok THEN "return" ELSE "throw", "endArena",
                                        Len(playerEntries)))
    /\ UNCHANGED <<leaderVars, indexerVars, mirrorVars, lifeVars, endVars, ap, decodeVars,
                   playerEntries, entryIndex>>

NextEndSeq ==
    \/ EndCheckTime
    \/ EndFindPrices
    \/ EndLoopStep
    \/ SetEndPriceReturns
    \/ EndPriceSetDelay
    \/ EndArenaReturns

SpecEndSeq == InitStartSeq /\ [][NextEndSeq]_vars

\* C32: endArena is sent only after setEndPrice has returned for every row of
\* playerEntries, it is sent with the wallets of all the rows, and the run
\* reaches 'completed' only after endArena has returned.
C32_FinalizeAfterEveryEndPrice ==
    /\ \A k \in DOMAIN calls :
          (calls[k].op = "send" /\ calls[k].instruction = "endArena") =>
              /\ calls[k].entry = Len(playerEntries)
              /\ \A e \in DOMAIN playerEntries :
                    \E j \in 1..(k - 1) : calls[j] = Call("return", "setEndPrice", e)
    /\ spos = "done" =>
          \E k \in DOMAIN calls : calls[k] = Call("return", "endArena", Len(playerEntries))

\* ------------------------------------- processArena(), statement by statement
\* The poller's refreshAccountsFromChain and the push stream's callback both
\* call processAccountUpdate -> processArena; their database statements
\* interleave. The rows are those of mirror.
Step(x, next) == [ap EXCEPT ![x].pc = next]

\* getAccountInfo / the pushed account: parseArena(data) of the account as it is.
ArenaDecoded(x) ==
    /\ ap[x].pc \in {"idle", "threw"}
    /\ ap' = [ap EXCEPT ![x].pc = "find", ![x].status = arenaAcct.status,
                        ![x].winningAsset = arenaAcct.winningAsset]
    /\ UNCHANGED <<leaderVars, indexerVars, mirrorVars, lifeVars, endVars, decodeVars,
                   startSeqVars>>

\* existingArena = prisma.arena.findUnique({ where: { arenaId } })
ArenaFindUnique(x) ==
    /\ ap[x].pc = "find"
    /\ ap' = [ap EXCEPT ![x].existing = mirror.arenaStatus,
                        ![x].pc = IF mirror.arenaStatus = "none" THEN "create" ELSE "update"]
    /\ UNCHANGED <<leaderVars, indexerVars, mirrorVars, lifeVars, endVars, decodeVars,
                   startSeqVars>>

\* prisma.arena.create: arenaId is unique, a second row is refused and the
\* call throws.
ArenaCreate(x) ==
    /\ ap[x].pc = "create"
    /\ IF mirror.arenaStatus # "none"
         THEN ap' = Step(x, "threw") /\ UNCHANGED mirror
         ELSE /\ mirror' = [mirror EXCEPT !.arenaStatus = ap[x].status,
                                          !.winningAsset = ap[x].winningAsset]
              /\ ap' = Step(x, "created")
    /\ UNCHANGED <<leaderVars, indexerVars, lifeVars, endVars, decodeVars, startSeqVars,
                   ledger, arenaAcct, entryAcct>>

\* prisma.arenaEvent.create({ eventType: 'arena_created' })
ArenaCreatedEvent(x) ==
    /\ ap[x].pc = "created"
    /\ mirror' = [mirror EXCEPT !.arena_created = @ + 1]
    /\ ap' = Step(x, "idle")
    /\ UNCHANGED <<leaderVars, indexerVars, lifeVars, endVars, decodeVars, startSeqVars,
                   ledger, arenaAcct, entryAcct>>

\* prisma.arena.update; statusChanged compares with the row findUnique read.
ArenaUpdate(x) ==
    /\ ap[x].pc = "update"
    /\ mirror' = [mirror EXCEPT !.arenaStatus = ap[x].status,
                                !.winningAsset = ap[x].winningAsset]
    /\ ap' = Step(x, IF ap[x].existing # ap[x].status THEN "event" ELSE "idle")
    /\ UNCHANGED <<leaderVars, indexerVars, lifeVars, endVars, decodeVars, startSeqVars,
                   ledger, arenaAcct, entryAcct>>

\* if (statusChanged): the event of getStatusChangeEventType; then, for an
\* ended arena with a winning asset, updatePlayerWinLossStats.
ArenaStatusEvent(x) ==
    /\ ap[x].pc = "event"
    /\ mirror' = IF ap[x].status = "Active" /\ ap[x].existing = "Waiting"
                   THEN [mirror EXCEPT !.arena_started = @ + 1]
                 ELSE IF ap[x].status = "Ended"
                   THEN [mirror EXCEPT !.arena_ended = @ + 1]
                 ELSE mirror
    /\ ap' = Step(x, IF ap[x].status = "Ended" /\ ap[x].winningAsset # NoAsset
                       THEN "stats" ELSE "idle")
    /\ UNCHANGED <<leaderVars, indexerVars, lifeVars, endVars, decodeVars, startSeqVars,
                   ledger, arenaAcct, entryAcct>>

\* updatePlayerWinLossStats: findMany of the entries, and for the entry the
\* findFirst of an arena_win / arena_loss action.
StatsFindAction(x) ==
    /\ ap[x].pc = "stats"
    /\ LET existingAction == mirror.arena_win + mirror.arena_loss > 0
       IN  ap' = [ap EXCEPT ![x].existingAction = existingAction,
                            ![x].pc = IF ~mirror.entryExists \/ existingAction
                                        THEN "idle" ELSE "write"]
    /\ UNCHANGED <<leaderVars, indexerVars, mirrorVars, lifeVars, endVars, decodeVars,
                   startSeqVars>>

\* updatePlayerWinLossStats: the increment of the counter and the action row.
StatsWrite(x) ==
    /\ ap[x].pc = "write"
    /\ mirror' = IF mirror.entryAsset = ap[x].winningAsset
                   THEN [mirror EXCEPT !.totalWins = @ + 1, !.arena_win = @ + 1]
                   ELSE [mirror EXCEPT !.totalLosses = @ + 1, !.arena_loss = @ + 1]
    /\ ap' = Step(x, "idle")
    /\ UNCHANGED <<leaderVars, indexerVars, lifeVars, endVars, decodeVars, startSeqVars,
                   ledger, arenaAcct, entryAcct>>

\* The chain program, the entry being indexed while the arena is Waiting, and
\* the two appliers.
NextRace ==
    \/ ChainEnterArena
    \/ ChainStartArena
    \/ ChainEndArena
    \/ arenaAcct.status = "Waiting" /\ EntryAccountUpdate
    \/ \E x \in Appliers : ArenaDecoded(x)
    \/ \E x \in Appliers : ArenaFindUnique(x)
    \/ \E x \in Appliers : ArenaCreate(x)
    \/ \E x \in Appliers : ArenaCreatedEvent(x)
    \/ \E x \in Appliers : ArenaUpdate(x)
    \/ \E x \in Appliers : ArenaStatusEvent(x)
    \/ \E x \in Appliers : StatsFindAction(x)
    \/ \E x \in Appliers : StatsWrite(x)

SpecRace == InitMirror /\ [][NextRace]_vars

\* C35: when both appliers apply the first sighting of the arena at once,
\* one arena row and one 'arena_created' event result and neither call throws.
C35_ConcurrentFirstSighting ==
    /\ mirror.arena_created <= 1
    /\ \A x \in Appliers : ap[x].pc # "threw"

\* C38: the win or loss counter of the player is incremented at most once for
\* the arena, however the two appliers of the Ended state interleave.
C38_WinLossCountedOnce ==
    /\ mirror.totalWins + mirror.totalLosses <= 1
    /\ mirror.arena_win + mirror.arena_loss <= 1

\* ------------------------------------------- the orchestrator and the mirror
\* The lifecycle workers together with the chain's accounts and the indexer:
\* a player enters before the start is triggered, the accounts change when
\* the chain has executed the orchestrator's startArena or endArena, and the
\* indexer brings the changes to the mirror.
NextFrame ==
    \/ NextLife
    \/ ~psExists /\ ChainEnterArena
    \/ accepted["start"] /\ ChainStartArena
    \/ accepted["end"] /\ ChainEndArena
    \/ ArenaAccountUpdate

SpecFrame == InitLife /\ [][NextFrame]_vars

\* --------------------------------------------------------- lifecycle claims

\* C4: for the arena and each phase at most one execution of the transition
\* is in flight at any time.
C4_OneInFlight ==
    \A p \in Phases : InFlight(p) <= 1

\* C5: the start (end) instruction is not submitted again once the chain has
\* executed it: the submission is executed exactly once.
C5_SubmittedOnce ==
    [][\A p \in Phases : submitted'[p] # submitted[p] => ~accepted[p]]_vars

\* C15: a row whose start or end sub-status stayed 'processing' past the
\* stuck threshold is set to 'failed' by a following scan, and the transition
\* is then executed again.
C15_StuckRowRedriven ==
    \A p \in Phases :
        Stuck(p) ~> (\E t \in Paths : tpc[t][p] = "exec" /\ psStatus[p] = "processing"
                                       /\ ~stale)

C20_RecoveryTriggersDue ==
    [][\A p \in Phases :
          (tpc["recovery"][p] = "idle" /\ tpc'["recovery"][p] # "idle")
             => (tpc'["recovery"][p] = "checked"
                   <=> /\ Due(p)
                       /\ MirrorStatus # "Ended"
                       /\ ~psExists \/ AfterStuckReset(p) \notin {"processing", "completed"})]_vars

\* C16: an end attempt rejected as "duration not complete" with R seconds
\* remaining leaves end_status 'scheduled', and no further end attempt starts
\* before R seconds plus the buffer have passed since the rejection.
C16_RejectedEndWaits ==
    /\ [][\A x \in Executors :
             (xpc[x] # "idle" /\ xpc'[x] = "idle" /\ outcome'[x] = "rejected")
                => endStatus' = "scheduled"]_vars
    /\ [][\A x \in Executors :
             (xpc[x] = "idle" /\ xpc'[x] = "check") => now >= notBefore]_vars

\* C17: no instruction of an end is submitted while the end time read from
\* the chain is in the future.
C17_NoSubmissionBeforeEnd ==
    [][\A x \in Executors :
          (xpc[x] \in {"prices", "sleep"} /\ xpc'[x] # xpc[x]) => Remaining <= 0]_vars

\* C21: when the process is restarted while a triggered transition has not
\* completed, a queued job of that arena and phase exists, which the queue
\* executes after the restart.
C21_CrashLeavesQueuedJob ==
    [][\A p \in Phases :
          (restarts' = restarts + 1 /\ InFlight(p) > 0)
             => job'[p] \in {"waiting", "active"}]_vars

\* C22: after a transition succeeded inline (the row says 'completed'), the
\* queue worker submits nothing for that arena and phase.
C22_NoSubmissionAfterInlineSuccess ==
    [][\A p \in Phases :
          (wpc[p] = "exec" /\ submitted'[p] # submitted[p])
             => psStatus[p] # "completed"]_vars

\* C26: no operation of the orchestrator (scanners, workers, recovery pass)
\* writes the Arena rows of the mirror: the mirror changes only in a step of
\* the indexer, which leaves the orchestrator's state alone.
C26_OrchestratorLeavesMirror ==
    [][mirror' # mirror => (lifeVars' = lifeVars /\ endVars' = endVars)]_vars

C26_Witness ==
    /\ mirror.arenaStatus = "Active" /\ arenaAcct.status = "Active"
    /\ psStatus["start"] = "completed" /\ submitted["start"] >= 1

\* C28: a sub-status of an existing processing-state row changes only along
\* pending -> processing, processing -> completed, processing -> failed and
\* failed -> processing, and, for the end phase, into and out of 'scheduled';
\* a 'completed' sub-status never changes again.
C28_SubStatusTransitions ==
    [][psExists =>
         \A p \in Phases :
            /\ \/ psStatus'[p] = psStatus[p]
               \/ <<psStatus[p], psStatus'[p]>> \in
                     {<<"pending", "processing">>, <<"processing", "completed">>,
                      <<"processing", "failed">>, <<"failed", "processing">>}
               \/ p = "end" /\ "scheduled" \in {psStatus[p], psStatus'[p]}
            /\ psStatus[p] = "completed" => psStatus'[p] = "completed"]_vars

C31_CompletedAfterEveryPrice ==
    spos = "done" =>
        \A e \in DOMAIN playerEntries :
            Cardinality({k \in DOMAIN calls :
                            calls[k] = Call("return", "setStartPrice", e)}) = 1

\* C33: a path (scanner, hook of processArena, recovery pass) triggers a
\* start transition, its addJob going on to the upsert, only for an arena that
\* the mirror has Waiting and whose join countdown has passed. (No path of the
\* code reads the capacity, so the countdown is the only condition a trigger
\* can have.)
C33_StartOnlyWhenDue ==
    [][\A t \in Paths :
          (tpc[t]["start"] # "checked" /\ tpc'[t]["start"] = "checked")
             => (MirrorStatus' = "Waiting" /\ countdownPassed)]_vars

\* C34: applying the decoded state of an account (the arena's, the entry's)
\* to the mirror twice leaves the mirror as applying it once does: no further
\* event, player action or counter increment.
C34_AccountStateIdempotent ==
    /\ ProcessArena(ProcessArena(mirror, arenaAcct), arenaAcct)
          = ProcessArena(mirror, arenaAcct)
    /\ entryAcct.exists =>
          ProcessPlayerEntry(ProcessPlayerEntry(mirror, entryAcct), entryAcct)
             = ProcessPlayerEntry(mirror, entryAcct)

\* ------------------------------------------------- the election from boot
\* Two instances are started (the third is never deployed); they may shut
\* down or crash.
TwoBoot ==
    /\ lockKey = None
    /\ ttl = 0
    /\ pc = [i \in Instances |-> IF i <= 2 THEN "boot" ELSE "down"]
    /\ isLeader = [i \in Instances |-> FALSE]
    /\ heartbeatInterval = [i \in Instances |-> FALSE]
    /\ followerCheckInterval = [i \in Instances |-> FALSE]
    /\ fcReply = [i \in Instances |-> "none"]
    /\ isShuttingDown = [i \in Instances |-> FALSE]
    /\ hbFired = [i \in Instances |-> FALSE]
    /\ startPending = [i \in Instances |-> FALSE]
    /\ indexerStarted = [i \in Instances |-> FALSE]
    /\ workersStarted = [i \in Instances |-> FALSE]
    /\ pollInterval = [i \in Instances |-> FALSE]
    /\ isRunning = [i \in Instances |-> FALSE]
    /\ HistInit

InitElection == TwoBoot /\ IndexerInit /\ RestInit

NextElection ==
    \/ NextLeader
    \/ \E i \in Instances : Crash(i)

\* The store answers: of the heartbeats of a running timer infinitely many
\* get the store's reply (not an error), the periods pass, the follower
\* checks fire and are answered.
ElectionFairness ==
    /\ CrashFairness
    /\ \A i \in Instances : SF_vars(Heartbeat(i))

SpecElection == InitElection /\ [][NextElection]_vars /\ ElectionFairness

\* The instances that run and are not shutting down.
Running == {i \in Instances : pc[i] = "run" /\ ~isShuttingDown[i]}

\* C36: whenever the lock key is absent while an instance is running and not
\* shutting down, some instance eventually holds the lock as leader (unless
\* every running instance stops first), whatever the running instances went
\* through before: a demotion by the heartbeat, a failed initial tryAcquire.
C36_EventuallyALeader ==
    (lockKey = None /\ Running # {})
       ~> (Running = {} \/ \E j \in Instances : isLeader[j] /\ lockKey = j)

\* C37: an instance that has begun its graceful shutdown (and whose release
\* did not fail on the store) does not hold the lock: the key never holds its
\* identity from then on, also when a SET NX of its follower check was in
\* flight at the time of the release.
C37_DepartingNeverHolds ==
    \A i \in Instances :
        (isShuttingDown[i] /\ releaseResult[i] # "error") => lockKey # i

\* C39: when no tick of the poller is under way (the last one is over), the
\* poller's in-memory lastSignature is the checkpoint signature of the
\* database, whether or not the saves of the tick succeeded.
C39_MemoryEqualsCheckpoint ==
    \A i \in Instances :
        (Polling(i) /\ ~isPolling[i]) => lastSignature[i] = syncSig

\* C40: startLeaderTasks() runs at most once in a process: it is called only
\* while no call of it is pending and none has run in the process (so not by
\* both main() and the promotion callback, and not again after a demotion),
\* and each call runs it once.
C40_LeaderTasksStartedOnce ==
    /\ [][\A i \in Instances :
             (startPending'[i] /\ ~startPending[i]) => taskStarts[i] = 0]_vars
    /\ [](\A i \in Instances : taskStarts[i] + (IF startPending[i] THEN 1 ELSE 0) <= 1)

\* C40 witness: an instance that started the leader tasks from main() was
\* demoted by its heartbeat, and a follower was promoted and started them from
\* the callback; each has run startLeaderTasks() once.
C40_Witness ==
    \E i, j \in Instances :
        /\ i # j
        /\ pc[i] = "run" /\ taskStarts[i] = 1 /\ callbackCalls[i] = 0
        /\ ~isLeader[i] /\ ~heartbeatInterval[i]
        /\ pc[j] = "run" /\ taskStarts[j] = 1 /\ callbackCalls[j] = 1 /\ isLeader[j]

====
